---- MODULE Spec2Model ----
(***************************************************************************)
(* Query-execution layer of tcli (package query): the row-stream plans,    *)
(* the column-stream plans and the part of the expression engine that the  *)
(* plans call, as a state machine.  One action is one call of Init or Next *)
(* on the root of a plan tree (Spec), or one call of a function of the     *)
(* expression engine on given arguments (EvalSpec).                        *)
(*                                                                         *)
(* Byte strings are sequences of byte codes ("a" is <<97>>).  A Go value   *)
(* that may be nil is a sequence of length 0 (nil) or 1 (the value).       *)
(***************************************************************************)
EXTENDS Integers, Sequences, FiniteSets, TLC

VARIABLES
    store,    \* the key-value store behind Txn: its rows in ascending key order
    orig,     \* the key list handed to NewMultiGetPlan, in the caller's order
    plan,     \* the plan tree with the private state of every plan in it
    phase,    \* "new" before Init, "ready" after Init returned nil, "failed" otherwise
    ret,      \* what the last Init / Next call on the root returned
    out,      \* the rows (or column tuples) the root has yielded so far
    calls,    \* number of Next calls made on the root
    faults,   \* number of storage faults injected so far
    log,      \* the calls made inside the last Init / Next call, in return order
    done,     \* the kinds of the plans whose Next has returned end-of-stream so far
    call,     \* a call of a function of the expression engine: the function, its arguments
    returned  \* what that call returned, Nil before it is made

vars == <<store, orig, plan, phase, ret, out, calls, faults, log, done, call, returned>>

\* ---------------------------------------------------------------- bounds

MaxRows == 3
MaxCalls == 5
MaxFaults == 1
MaxStart == 2
MaxCount == 2
MaxFaultAt == 2
MaxSortRows == 4

\* ---------------------------------------------------------------- bytes

Nil == <<>>
Some(x) == <<x>>
Get(o) == o[1]

NoErr == "nil"
ErrStorage == "storage error"
ErrPanic == "panic: nil pointer dereference"

Min(a, b) == IF a < b THEN a ELSE b

\* F applied to the value v: the rest of a method after a call that returned v
With(v, F(_)) == F(v)

RECURSIVE BytesCompare(_, _)
BytesCompare(a, b) ==
    IF a = <<>> /\ b = <<>> THEN 0
    ELSE IF a = <<>> THEN -1
    ELSE IF b = <<>> THEN 1
    ELSE IF Head(a) < Head(b) THEN -1
    ELSE IF Head(a) > Head(b) THEN 1
    ELSE BytesCompare(Tail(a), Tail(b))

HasPrefix(s, p) == Len(p) <= Len(s) /\ SubSeq(s, 1, Len(p)) = p

\* sort.Strings: ascending byte order, duplicates kept
RECURSIVE InsertSorted(_, _)
InsertSorted(s, x) ==
    IF s = <<>> THEN <<x>>
    ELSE IF BytesCompare(x, Head(s)) < 0 THEN <<x>> \o s
    ELSE <<Head(s)>> \o InsertSorted(Tail(s), x)

RECURSIVE SortStrings(_)
SortStrings(s) ==
    IF s = <<>> THEN <<>> ELSE InsertSorted(SortStrings(Tail(s)), Head(s))

RECURSIVE SetToSortedSeq(_)
SetToSortedSeq(S) ==
    IF S = {} THEN <<>>
    ELSE LET m == CHOOSE x \in S : \A y \in S : BytesCompare(x, y) <= 0
         IN <<m>> \o SetToSortedSeq(S \ {m})

\* ---------------------------------------------------------------- call context
\* n: storage calls made so far inside the current root call; f: the ordinal of
\* the storage call that fails in this root call (0: none); log: the trace.

Ctx(f) == [n |-> 0, f |-> f, log |-> <<>>]

Ev(c, src, d, k, e) ==
    [c EXCEPT !.log = Append(@, [src |-> src, depth |-> d, key |-> k, err |-> e])]

Fails(c) == c.f = c.n + 1

Tick(c) == [c EXCEPT !.n = @ + 1]

\* ---------------------------------------------------------------- Txn and Cursor
\* A cursor is its position: the number of keys already passed.

\* The store is the sequence of its rows in ascending key order.

StoreKeySet == {store[i].key : i \in 1..Len(store)}

TxnCursor(d, c) ==
    IF Fails(c)
    THEN [iter |-> Nil, err |-> ErrStorage,
          c |-> Ev(Tick(c), "Txn.Cursor", d, Nil, ErrStorage)]
    ELSE [iter |-> Some(0), err |-> NoErr,
          c |-> Ev(Tick(c), "Txn.Cursor", d, Nil, NoErr)]

CursorSeek(iter, k, d, c) ==
    IF iter = Nil
    THEN [iter |-> iter, err |-> ErrPanic, c |-> Ev(c, "Cursor.Seek", d, Nil, ErrPanic)]
    ELSE IF Fails(c)
    THEN [iter |-> iter, err |-> ErrStorage,
          c |-> Ev(Tick(c), "Cursor.Seek", d, Nil, ErrStorage)]
    ELSE [iter |-> Some(Cardinality({i \in 1..Len(store) : BytesCompare(store[i].key, k) < 0})),
          err |-> NoErr,
          c |-> Ev(Tick(c), "Cursor.Seek", d, Nil, NoErr)]

CursorNext(iter, d, c) ==
    IF iter = Nil
    THEN [iter |-> iter, key |-> Nil, val |-> Nil, err |-> ErrPanic,
          c |-> Ev(c, "Cursor.Next", d, Nil, ErrPanic)]
    ELSE IF Get(iter) >= Len(store)
    THEN [iter |-> iter, key |-> Nil, val |-> Nil, err |-> NoErr,
          c |-> Ev(Tick(c), "Cursor.Next", d, Nil, NoErr)]
    ELSE IF Fails(c)
    THEN [iter |-> iter, key |-> Nil, val |-> Nil, err |-> ErrStorage,
          c |-> Ev(Tick(c), "Cursor.Next", d, Nil, ErrStorage)]
    ELSE LET row == store[Get(iter) + 1]
         IN [iter |-> Some(Get(iter) + 1), key |-> Some(row.key), val |-> Some(row.value),
             err |-> NoErr,
             c |-> Ev(Tick(c), "Cursor.Next", d, Some(row.key), NoErr)]

TxnGet(k, d, c) ==
    LET hit == {i \in 1..Len(store) : store[i].key = k}
    IN IF Fails(c)
       THEN [val |-> Nil, err |-> ErrStorage,
             c |-> Ev(Tick(c), "Txn.Get", d, Some(k), ErrStorage)]
       ELSE [val |-> IF hit = {} THEN Nil ELSE Some(store[CHOOSE i \in hit : TRUE].value),
             err |-> NoErr,
             c |-> Ev(Tick(c), "Txn.Get", d, Some(k), NoErr)]

\* ---------------------------------------------------------------- values
\* A runtime value (Go's any) is a tagged record.

VBytes(b) == [t |-> "bytes", v |-> b]
VBool(b) == [t |-> "bool", v |-> b]
VInt(i) == [t |-> "int", v |-> i]
VList(l) == [t |-> "list", v |-> l]
VNil == [t |-> "nil", v |-> Nil]
\* a Go string, a map[string]any (the sequence of its entries, one per key) and the
\* []Expression that a list literal evaluates to
VStr(s) == [t |-> "string", v |-> s]
VMap(m) == [t |-> "map", v |-> m]
VExprs(l) == [t |-> "exprs", v |-> l]
Entry(k, x) == [key |-> k, val |-> x]
\* lval[fieldName]
MapHas(m, k) == \E i \in 1..Len(m) : m[i].key = k
MapGet(m, k) == m[CHOOSE i \in 1..Len(m) : m[i].key = k].val

KVP(k, v) == [Key |-> k, Value |-> v]

convertToByteArray(x) ==
    IF x.t \in {"bytes", "string"} THEN [b |-> x.v, ok |-> TRUE]
    ELSE [b |-> <<>>, ok |-> FALSE]

convertToInt(x) ==
    IF x.t = "int" THEN [i |-> x.v, ok |-> TRUE] ELSE [i |-> 0, ok |-> FALSE]

\* ---------------------------------------------------------------- expressions

StringExpr(d) == [kind |-> "StringExpr", Data |-> d]
FieldExpr(f) == [kind |-> "FieldExpr", Field |-> f]
BoolExpr(b) == [kind |-> "BoolExpr", Bool |-> b]
NumberExpr(i) == [kind |-> "NumberExpr", Int |-> i]
NotExpr(r) == [kind |-> "NotExpr", Right |-> r]
BinaryOpExpr(op, l, r) == [kind |-> "BinaryOpExpr", Op |-> op, Left |-> l, Right |-> r]
FunctionCallExpr(name, args) ==
    [kind |-> "FunctionCallExpr", Name |-> name, Args |-> args, Result |-> Nil]
ListExpr(l) == [kind |-> "ListExpr", List |-> l]
NameExpr(d) == [kind |-> "NameExpr", Data |-> d]
FieldAccessExpr(l, f) == [kind |-> "FieldAccessExpr", Left |-> l, FieldName |-> f]

\* evals lists the operands that a logical operator evaluated, in order
Val(v) == [val |-> v, err |-> NoErr, evals |-> <<>>]
\* (nil, err) and (false, err)
Fail(e) == [val |-> VNil, err |-> e, evals |-> <<>>]
FailB(e) == [val |-> VBool(FALSE), err |-> e, evals |-> <<>>]
\* the result r of a logical operator that evaluated the operands ops
Evaluated(r, ops) == [r EXCEPT !.evals = ops]

ReturnType(e) ==
    CASE e.kind \in {"StringExpr", "FieldExpr"} -> "TSTR"
      [] e.kind \in {"BoolExpr", "NotExpr"} -> "TBOOL"
      [] e.kind \in {"NumberExpr", "FunctionCallExpr"} -> "TNUMBER"
      [] e.kind = "BinaryOpExpr" -> "TBOOL"
      [] OTHER -> "TUNKNOWN"

\* decimal digits to an integer; anything else does not parse
RECURSIVE ParseDigits(_, _)
ParseDigits(b, acc) ==
    IF b = <<>> THEN acc
    ELSE ParseDigits(Tail(b), acc * 10 + (Head(b) - 48))

IsDigits(b) == b # <<>> /\ \A i \in 1..Len(b) : b[i] >= 48 /\ b[i] <= 57

\* the scalar function registry: int(x) is the only function the model registers
GetScalarFunction(e) ==
    IF e.Name = "int"
    THEN [fn |-> [Name |-> "int", NumArgs |-> 1, VarArgs |-> FALSE], err |-> NoErr]
    ELSE [fn |-> [Name |-> "", NumArgs |-> 0, VarArgs |-> FALSE],
          err |-> "Cannot find function"]

RECURSIVE Execute(_, _)

FunctionBody(fn, kv, args) ==
    LET a == Execute(args[1], kv)
    IN IF a.err # NoErr THEN Fail(a.err)
       ELSE IF a.val.t = "int" THEN Val(a.val)
       ELSE IF a.val.t = "bytes" /\ IsDigits(a.val.v) THEN Val(VInt(ParseDigits(a.val.v, 0)))
       ELSE Fail("Cannot convert to int")

executeFunc(e, kv, fn) ==
    IF ~fn.VarArgs /\ Len(e.Args) # fn.NumArgs
    THEN Fail("Function require arguments")
    ELSE FunctionBody(fn, kv, e.Args)

execEqual(e, kv) ==
    LET rleft == Execute(e.Left, kv)
        rright == Execute(e.Right, kv)
        bad == FailB("Invalid = operator left type")
    IN IF rleft.err # NoErr THEN FailB(rleft.err)
       ELSE IF rright.err # NoErr THEN FailB(rright.err)
       ELSE IF rleft.val.t = "bytes"
       THEN IF convertToByteArray(rleft.val).ok /\ convertToByteArray(rright.val).ok
            THEN Val(VBool(convertToByteArray(rleft.val).b = convertToByteArray(rright.val).b))
            ELSE bad
       ELSE IF rleft.val.t = "int"
       THEN IF convertToInt(rleft.val).ok /\ convertToInt(rright.val).ok
            THEN Val(VBool(convertToInt(rleft.val).i = convertToInt(rright.val).i))
            ELSE bad
       ELSE IF rleft.val.t = "bool"
       THEN IF rright.val.t = "bool" THEN Val(VBool(rleft.val.v = rright.val.v)) ELSE bad
       ELSE bad

execNotEqual(e, kv) ==
    With(execEqual(e, kv), LAMBDA r :
        IF r.err # NoErr THEN FailB(r.err) ELSE Val(VBool(~r.val.v)))

execPrefixMatch(e, kv) ==
    LET rleft == Execute(e.Left, kv)
        rright == Execute(e.Right, kv)
    IN IF rleft.err # NoErr THEN FailB(rleft.err)
       ELSE IF rright.err # NoErr THEN FailB(rright.err)
       ELSE IF ~convertToByteArray(rleft.val).ok \/ ~convertToByteArray(rright.val).ok
       THEN FailB("^= left value error")
       ELSE Val(VBool(HasPrefix(convertToByteArray(rleft.val).b,
                                convertToByteArray(rright.val).b)))

\* faulty variant: the right operand is evaluated before the left one is tested
execAndEager(e, kv) ==
    LET rleft == Execute(e.Left, kv)
        rright == Execute(e.Right, kv)
        both == <<"Left", "Right">>
    IN IF rleft.err # NoErr THEN Evaluated(FailB(rleft.err), <<"Left">>)
       ELSE IF rleft.val.t # "bool"
       THEN Evaluated(FailB("& left value type not bool"), <<"Left">>)
       ELSE IF rright.err # NoErr THEN Evaluated(FailB(rright.err), both)
       ELSE IF rright.val.t # "bool"
       THEN Evaluated(FailB("& right value type not bool"), both)
       ELSE Evaluated(Val(VBool(rleft.val.v /\ rright.val.v)), both)

execAnd(e, kv) ==
    With(Execute(e.Left, kv), LAMBDA rleft :
        IF rleft.err # NoErr THEN Evaluated(FailB(rleft.err), <<"Left">>)
        ELSE IF rleft.val.t # "bool"
        THEN Evaluated(FailB("& left value type not bool"), <<"Left">>)
        ELSE IF ~rleft.val.v THEN Evaluated(Val(VBool(FALSE)), <<"Left">>)
        ELSE With(Execute(e.Right, kv), LAMBDA rright :
            LET both == <<"Left", "Right">>
            IN IF rright.err # NoErr THEN Evaluated(FailB(rright.err), both)
               ELSE IF rright.val.t # "bool"
               THEN Evaluated(FailB("& right value type not bool"), both)
               ELSE Evaluated(Val(VBool(rleft.val.v /\ rright.val.v)), both)))

execOr(e, kv) ==
    With(Execute(e.Left, kv), LAMBDA rleft :
        IF rleft.err # NoErr THEN Evaluated(FailB(rleft.err), <<"Left">>)
        ELSE IF rleft.val.t # "bool"
        THEN Evaluated(FailB("| left value type not bool"), <<"Left">>)
        ELSE IF rleft.val.v THEN Evaluated(Val(VBool(TRUE)), <<"Left">>)
        ELSE With(Execute(e.Right, kv), LAMBDA rright :
            LET both == <<"Left", "Right">>
            IN IF rright.err # NoErr THEN Evaluated(FailB(rright.err), both)
               ELSE IF rright.val.t # "bool"
               THEN Evaluated(FailB("| right value type not bool"), both)
               ELSE Evaluated(Val(VBool(rleft.val.v \/ rright.val.v)), both)))

\* the relation op between two integers that compare as c (-1, 0 or 1)
CompareOp(c, op) ==
    CASE op = "=" -> c = 0
      [] op = "<" -> c < 0
      [] op = "<=" -> c <= 0
      [] op = ">" -> c > 0
      [] op = ">=" -> c >= 0

\* the package-level comparators: both values must have the runtime type of the
\* comparison; strings compare as byte sequences, numbers as integers
execStringCompare(left, right, op) ==
    IF ~convertToByteArray(left).ok \/ ~convertToByteArray(right).ok
    THEN [cmp |-> FALSE, err |-> "Invalid string compare operand"]
    ELSE [cmp |-> CompareOp(BytesCompare(convertToByteArray(left).b,
                                         convertToByteArray(right).b), op),
          err |-> NoErr]

execNumberCompare(left, right, op) ==
    IF ~convertToInt(left).ok \/ ~convertToInt(right).ok
    THEN [cmp |-> FALSE, err |-> "Invalid number compare operand"]
    ELSE LET l == convertToInt(left).i
             r == convertToInt(right).i
         IN [cmp |-> CompareOp(IF l < r THEN -1 ELSE IF l > r THEN 1 ELSE 0, op),
             err |-> NoErr]

\* the comparator that the string (tp = TSTR) or the number version of in and
\* between calls
execCompare(tp, left, right, op) ==
    IF tp = "TSTR" THEN execStringCompare(left, right, op)
    ELSE execNumberCompare(left, right, op)

\* faulty variant: an equal element does not end the loop, the answer is given after
\* the last element
RECURSIVE execInFromToTheEnd(_, _, _, _, _, _)
execInFromToTheEnd(list, i, left, kv, tp, found) ==
    IF i > Len(list) THEN Val(VBool(found))
    ELSE IF ReturnType(list[i]) # tp
    THEN FailB("operator in right expression type is not " \o
               (IF tp = "TSTR" THEN "string" ELSE "number"))
    ELSE LET lvalue == Execute(list[i], kv)
             c == execCompare(tp, left, lvalue.val, "=")
         IN IF lvalue.err # NoErr THEN FailB(lvalue.err)
            ELSE IF c.err # NoErr THEN FailB(c.err)
            ELSE execInFromToTheEnd(list, i + 1, left, kv, tp, found \/ c.cmp)

execInToTheEnd(list, i, left, kv, tp) == execInFromToTheEnd(list, i, left, kv, tp, FALSE)

\* the loop of execStringIn (tp = TSTR) and of execNumberIn (tp = TNUMBER) from
\* element i on; tp is the declared type the elements must have
RECURSIVE execInFrom(_, _, _, _, _)
execInFrom(list, i, left, kv, tp) ==
    IF i > Len(list) THEN Val(VBool(FALSE))
    ELSE IF ReturnType(list[i]) # tp
    THEN FailB("operator in right expression type is not " \o
               (IF tp = "TSTR" THEN "string" ELSE "number"))
    ELSE With(Execute(list[i], kv), LAMBDA lvalue :
        IF lvalue.err # NoErr THEN FailB(lvalue.err)
        ELSE With(execCompare(tp, left, lvalue.val, "="), LAMBDA c :
            IF c.err # NoErr THEN FailB(c.err)
            ELSE IF c.cmp THEN Val(VBool(TRUE))
            ELSE execInFrom(list, i + 1, left, kv, tp)))

execStringIn(e, kv) ==
    With(Execute(e.Left, kv), LAMBDA left :
        IF left.err # NoErr THEN FailB(left.err)
        ELSE IF e.Right.kind # "ListExpr"
        THEN FailB("operator in right expression is not list")
        ELSE execInFrom(e.Right.List, 1, left.val, kv, "TSTR"))

execNumberIn(e, kv) ==
    With(Execute(e.Left, kv), LAMBDA left :
        IF left.err # NoErr THEN FailB(left.err)
        ELSE IF e.Right.kind # "ListExpr"
        THEN FailB("operator in right expression is not list")
        ELSE execInFrom(e.Right.List, 1, left.val, kv, "TNUMBER"))

\* execStringBetween / execNumberBetween after the left operand and the list test
execBetweenBounds(left, lexpr, uexpr, kv, tp) ==
    IF ReturnType(lexpr) # tp
    THEN FailB("operator between lower boundary expression type is not string")
    ELSE IF ReturnType(uexpr) # tp
    THEN FailB("operator between upper boundary expression type is not string")
    ELSE With(Execute(lexpr, kv), LAMBDA lval :
        IF lval.err # NoErr THEN FailB(lval.err)
        ELSE With(Execute(uexpr, kv), LAMBDA uval :
            IF uval.err # NoErr THEN FailB(uval.err)
            ELSE With(execCompare(tp, lval.val, uval.val, "<"), LAMBDA cmp :
                IF cmp.err # NoErr THEN FailB(cmp.err)
                ELSE IF ~cmp.cmp
                THEN FailB("operator between lower boundary is greater than upper boundary.")
                ELSE With(execCompare(tp, lval.val, left, "<="), LAMBDA lcmp :
                    IF lcmp.err # NoErr THEN FailB(lcmp.err)
                    ELSE IF ~lcmp.cmp THEN Val(VBool(FALSE))
                    ELSE With(execCompare(tp, left, uval.val, "<="), LAMBDA ucmp :
                        IF ucmp.err # NoErr THEN FailB(ucmp.err)
                        ELSE Val(VBool(ucmp.cmp)))))))

execStringBetween(e, kv) ==
    With(Execute(e.Left, kv), LAMBDA left :
        IF left.err # NoErr THEN FailB(left.err)
        ELSE IF e.Right.kind # "ListExpr" \/ Len(e.Right.List) # 2
        THEN FailB("operator between right expression is invalid")
        ELSE execBetweenBounds(left.val, e.Right.List[1], e.Right.List[2], kv, "TSTR"))

execNumberBetween(e, kv) ==
    With(Execute(e.Left, kv), LAMBDA left :
        IF left.err # NoErr THEN FailB(left.err)
        ELSE IF e.Right.kind # "ListExpr" \/ Len(e.Right.List) # 2
        THEN FailB("operator between right expression is invalid")
        ELSE execBetweenBounds(left.val, e.Right.List[1], e.Right.List[2], kv, "TNUMBER"))

BinaryOpExecute(e, kv) ==
    CASE e.Op = "Eq" -> execEqual(e, kv)
      [] e.Op = "NotEq" -> execNotEqual(e, kv)
      [] e.Op = "PrefixMatch" -> execPrefixMatch(e, kv)
      [] e.Op = "And" -> execAnd(e, kv)
      [] e.Op = "Or" -> execOr(e, kv)
      [] e.Op = "In" -> IF ReturnType(e.Left) = "TSTR" THEN execStringIn(e, kv)
                        ELSE execNumberIn(e, kv)
      [] e.Op = "Between" -> IF ReturnType(e.Left) = "TSTR" THEN execStringBetween(e, kv)
                             ELSE execNumberBetween(e, kv)
      [] OTHER -> Fail("Unknown operator")

NotExecute(e, kv) ==
    LET rright == Execute(e.Right, kv)
    IN IF rright.err # NoErr THEN Fail(rright.err)
       ELSE IF rright.val.t # "bool" THEN Fail("! right value error")
       ELSE Val(VBool(~rright.val.v))

FunctionCallExecute(e, kv) ==
    LET fo == GetScalarFunction(e)
    IN IF e.Result # Nil THEN Val(Get(e.Result))
       ELSE IF fo.err # NoErr THEN Fail(fo.err)
       ELSE executeFunc(e, kv, fo.fn)

\* the empty Go string that stands for an absent field
Absent == Val(VStr(<<>>))

execDictAccess(fieldName, left) ==
    CASE left.t = "map" ->
           IF MapHas(left.v, fieldName) THEN Val(MapGet(left.v, fieldName)) ELSE Absent
      [] left.t = "string" ->
           IF left.v = <<>> THEN Absent ELSE Fail("Invalid left type not JSON")
      [] OTHER -> Fail("Invalid left type not JSON")

\* lval[idx] with idx < 0 is a run-time panic: only idx < len(lval) is tested
execListAccess(idx, left) ==
    CASE left.t = "list" ->
           IF idx < Len(left.v)
           THEN IF idx < 0 THEN Fail(ErrPanic) ELSE Val(left.v[idx + 1])
           ELSE Absent
      [] left.t = "string" ->
           IF left.v = <<>> THEN Absent ELSE Fail("Invalid left type not List")
      [] OTHER -> Fail("Invalid left type not List")

FieldAccessExecute(e, kv) ==
    With(Execute(e.Left, kv), LAMBDA left :
        IF left.err # NoErr THEN Fail(left.err)
        ELSE CASE e.FieldName.kind = "StringExpr" ->
                    execDictAccess(e.FieldName.Data, left.val)
               [] e.FieldName.kind = "NumberExpr" ->
                    execListAccess(e.FieldName.Int, left.val)
               [] OTHER -> Fail("Invalid field name"))

FieldExecute(e, kv) ==
    CASE e.Field = "KeyKW" -> Val(VBytes(kv.Key))
      [] e.Field = "ValueKW" -> Val(VBytes(kv.Value))
      [] OTHER -> Fail("Invalid Field")

Execute(e, kv) ==
    CASE e.kind = "StringExpr" -> Val(VBytes(e.Data))
      [] e.kind = "FieldExpr" -> FieldExecute(e, kv)
      [] e.kind = "BoolExpr" -> Val(VBool(e.Bool))
      [] e.kind = "NumberExpr" -> Val(VInt(e.Int))
      [] e.kind = "BinaryOpExpr" -> BinaryOpExecute(e, kv)
      [] e.kind = "NotExpr" -> NotExecute(e, kv)
      [] e.kind = "FunctionCallExpr" -> FunctionCallExecute(e, kv)
      [] e.kind = "ListExpr" -> Val(VExprs(e.List))
      [] e.kind = "NameExpr" -> Val(VStr(e.Data))
      [] e.kind = "FieldAccessExpr" -> FieldAccessExecute(e, kv)
      [] OTHER -> Fail("Unknown expression")

\* ---------------------------------------------------------------- filter adapter

\* filterBatch's loop from row idx on; acc holds the results of the rows before it
RECURSIVE filterBatchFrom(_, _, _, _)
filterBatchFrom(ast, kvps, idx, acc) ==
    IF idx > Len(kvps) THEN [ret |-> acc, err |-> NoErr]
    ELSE With(Execute(ast, kvps[idx]), LAMBDA result :
        IF result.err # NoErr THEN [ret |-> <<>>, err |-> result.err]
        ELSE IF result.val.t # "bool"
        THEN [ret |-> <<>>, err |-> "Expression result is not boolean"]
        ELSE filterBatchFrom(ast, kvps, idx + 1, Append(acc, result.val.v)))

filterBatch(ast, kvps) == filterBatchFrom(ast, kvps, 1, <<>>)

\* Expression.ExecuteBatch: the values of the expression on the rows of the chunk, in
\* row order, or the error of the first row whose evaluation fails
RECURSIVE ExecuteBatchFrom(_, _, _, _)
ExecuteBatchFrom(ast, chunk, idx, acc) ==
    IF idx > Len(chunk) THEN [result |-> acc, err |-> NoErr]
    ELSE With(Execute(ast, chunk[idx]), LAMBDA r :
        IF r.err # NoErr THEN [result |-> <<>>, err |-> r.err]
        ELSE ExecuteBatchFrom(ast, chunk, idx + 1, Append(acc, r.val)))

ExecuteBatch(ast, chunk) == ExecuteBatchFrom(ast, chunk, 1, <<>>)

\* the loop of filterChunk from result i on
RECURSIVE filterChunkFrom(_, _, _)
filterChunkFrom(results, i, acc) ==
    IF i > Len(results) THEN [ret |-> acc, err |-> NoErr]
    ELSE IF results[i].t # "bool"
    THEN [ret |-> <<>>, err |-> "Expression result is not boolean"]
    ELSE filterChunkFrom(results, i + 1, Append(acc, results[i].v))

\* faulty variant: a result that is no boolean counts as false
filterChunkLax(ast, chunk) ==
    LET r == ExecuteBatch(ast, chunk)
    IN IF r.err # NoErr THEN [ret |-> <<>>, err |-> r.err]
       ELSE [ret |-> [i \in 1..Len(r.result) |->
                         r.result[i].t = "bool" /\ r.result[i].v],
             err |-> NoErr]

filterChunk(ast, chunk) ==
    With(ExecuteBatch(ast, chunk), LAMBDA r :
        IF r.err # NoErr THEN [ret |-> <<>>, err |-> r.err]
        ELSE filterChunkFrom(r.result, 1, <<>>))

FilterBatch(ast, chunk) == filterChunk(ast, chunk)

Filter(ast, kvp) ==
    With(filterBatch(ast, <<kvp>>), LAMBDA r :
        IF r.err # NoErr THEN [ok |-> FALSE, err |-> r.err]
        ELSE [ok |-> r.ret[1], err |-> NoErr])

\* ---------------------------------------------------------------- plan constructors

NewFullScanPlan(f) == [kind |-> "FullScanPlan", Filter |-> f, iter |-> Nil]

NewEmptyResultPlan == [kind |-> "EmptyResultPlan"]

NewPrefixScanPlan(f, p) ==
    [kind |-> "PrefixScanPlan", Filter |-> f, Prefix |-> p, iter |-> Nil]

NewRangeScanPlan(f, start, end) ==
    [kind |-> "RangeScanPlan", Filter |-> f, Start |-> start, End |-> end, iter |-> Nil]

\* faulty variant: the keys are not sorted
NewMultiGetPlanUnsorted(f, keys) ==
    [kind |-> "MultiGetPlan", Filter |-> f, Keys |-> keys,
     idx |-> 0, numKeys |-> Len(keys)]

NewMultiGetPlan(f, keys) ==
    [kind |-> "MultiGetPlan", Filter |-> f, Keys |-> SortStrings(keys),
     idx |-> 0, numKeys |-> Len(keys)]

LimitPlan(start, count, child) ==
    [kind |-> "LimitPlan", Start |-> start, Count |-> count,
     current |-> 0, skips |-> 0, ChildPlan |-> child]

OrderPlan(orders, child) ==
    [kind |-> "OrderPlan", Orders |-> orders, ChildPlan |-> child,
     pos |-> 0, total |-> 0, sorted |-> <<>>]

ProjectionPlan(child) == [kind |-> "ProjectionPlan", ChildPlan |-> child]

FinalLimitPlan(start, count, child) ==
    [kind |-> "FinalLimitPlan", Start |-> start, Count |-> count,
     current |-> 0, skips |-> 0, ChildPlan |-> child]

FinalOrderField(name, field, order) == [Name |-> name, Field |-> field, Order |-> order]

FinalOrderPlan(orders, names, child) ==
    [kind |-> "FinalOrderPlan", Orders |-> orders, FieldNames |-> names, ChildPlan |-> child,
     pos |-> 0, total |-> 0, sorted |-> <<>>, orderPos |-> <<>>, orderTypes |-> <<>>]

\* what a plan method returns, with the plan's new state and the call context
RowRet(p, k, v, e, d, c) ==
    [plan |-> p, key |-> k, val |-> v, err |-> e, c |-> Ev(c, p.kind, d, k, e)]

ColRet(p, cols, e, d, c) ==
    [plan |-> p, cols |-> cols, err |-> e, c |-> Ev(c, p.kind, d, cols, e)]

InitRet(p, e, d, c) ==
    [plan |-> p, err |-> e, c |-> Ev(c, "Init", d, Nil, e)]

\* ---------------------------------------------------------------- scan plans

FullScanInit(p, d, c) ==
    LET cur == TxnCursor(d, c)
        sk == CursorSeek(cur.iter, <<>>, d, cur.c)
    IN IF cur.err # NoErr THEN InitRet([p EXCEPT !.iter = cur.iter], cur.err, d, cur.c)
       ELSE InitRet([p EXCEPT !.iter = sk.iter], sk.err, d, sk.c)

\* faulty variant: a row whose filter evaluation fails is skipped
RECURSIVE FullScanNextSkipsFilterError(_, _, _)
FullScanNextSkipsFilterError(p, d, c) ==
    LET it == CursorNext(p.iter, d, c)
        q == [p EXCEPT !.iter = it.iter]
        fr == Filter(p.Filter, KVP(Get(it.key), Get(it.val)))
        cf == Ev(it.c, "Filter", d, it.key, fr.err)
    IN IF it.err # NoErr THEN RowRet(q, Nil, Nil, it.err, d, it.c)
       ELSE IF it.key = Nil THEN RowRet(q, Nil, Nil, NoErr, d, it.c)
       ELSE IF fr.err = NoErr /\ fr.ok THEN RowRet(q, it.key, it.val, NoErr, d, cf)
       ELSE FullScanNextSkipsFilterError(q, d, cf)

RECURSIVE FullScanNext(_, _, _)
FullScanNext(p, d, c) ==
    With(CursorNext(p.iter, d, c), LAMBDA it :
        LET q == [p EXCEPT !.iter = it.iter]
        IN IF it.err # NoErr THEN RowRet(q, Nil, Nil, it.err, d, it.c)
           ELSE IF it.key = Nil THEN RowRet(q, Nil, Nil, NoErr, d, it.c)
           ELSE With(Filter(p.Filter, KVP(Get(it.key), Get(it.val))), LAMBDA fr :
               LET cf == Ev(it.c, "Filter", d, it.key, fr.err)
               IN IF fr.err # NoErr THEN RowRet(q, Nil, Nil, fr.err, d, cf)
                  ELSE IF fr.ok THEN RowRet(q, it.key, it.val, NoErr, d, cf)
                  ELSE FullScanNext(q, d, cf)))

PrefixScanInit(p, d, c) ==
    LET cur == TxnCursor(d, c)
        sk == CursorSeek(cur.iter, p.Prefix, d, cur.c)
    IN IF cur.err # NoErr THEN InitRet([p EXCEPT !.iter = cur.iter], cur.err, d, cur.c)
       ELSE InitRet([p EXCEPT !.iter = sk.iter], sk.err, d, sk.c)

\* faulty variant: the key is never tested for the prefix
RECURSIVE PrefixScanNextNoPrefixTest(_, _, _)
PrefixScanNextNoPrefixTest(p, d, c) ==
    LET it == CursorNext(p.iter, d, c)
        q == [p EXCEPT !.iter = it.iter]
        fr == Filter(p.Filter, KVP(Get(it.key), Get(it.val)))
        cf == Ev(it.c, "Filter", d, it.key, fr.err)
    IN IF it.err # NoErr THEN RowRet(q, Nil, Nil, it.err, d, it.c)
       ELSE IF it.key = Nil THEN RowRet(q, Nil, Nil, NoErr, d, it.c)
       ELSE IF fr.err # NoErr THEN RowRet(q, Nil, Nil, fr.err, d, cf)
       ELSE IF fr.ok THEN RowRet(q, it.key, it.val, NoErr, d, cf)
       ELSE PrefixScanNextNoPrefixTest(q, d, cf)

\* faulty variant: a row the filter refuses ends the stream
PrefixScanNextStopsOnRefused(p, d, c) ==
    LET it == CursorNext(p.iter, d, c)
        q == [p EXCEPT !.iter = it.iter]
        fr == Filter(p.Filter, KVP(Get(it.key), Get(it.val)))
        cf == Ev(it.c, "Filter", d, it.key, fr.err)
    IN IF it.err # NoErr THEN RowRet(q, Nil, Nil, it.err, d, it.c)
       ELSE IF it.key = Nil THEN RowRet(q, Nil, Nil, NoErr, d, it.c)
       ELSE IF ~HasPrefix(Get(it.key), p.Prefix) THEN RowRet(q, Nil, Nil, NoErr, d, it.c)
       ELSE IF fr.err # NoErr THEN RowRet(q, Nil, Nil, fr.err, d, cf)
       ELSE IF fr.ok THEN RowRet(q, it.key, it.val, NoErr, d, cf)
       ELSE RowRet(q, Nil, Nil, NoErr, d, cf)

RECURSIVE PrefixScanNext(_, _, _)
PrefixScanNext(p, d, c) ==
    With(CursorNext(p.iter, d, c), LAMBDA it :
        LET q == [p EXCEPT !.iter = it.iter]
        IN IF it.err # NoErr THEN RowRet(q, Nil, Nil, it.err, d, it.c)
           ELSE IF it.key = Nil THEN RowRet(q, Nil, Nil, NoErr, d, it.c)
           ELSE IF ~HasPrefix(Get(it.key), p.Prefix) THEN RowRet(q, Nil, Nil, NoErr, d, it.c)
           ELSE With(Filter(p.Filter, KVP(Get(it.key), Get(it.val))), LAMBDA fr :
               LET cf == Ev(it.c, "Filter", d, it.key, fr.err)
               IN IF fr.err # NoErr THEN RowRet(q, Nil, Nil, fr.err, d, cf)
                  ELSE IF fr.ok THEN RowRet(q, it.key, it.val, NoErr, d, cf)
                  ELSE PrefixScanNext(q, d, cf)))

\* faulty variant: Init never seeks to Start
RangeScanInitNoSeek(p, d, c) ==
    LET cur == TxnCursor(d, c)
    IN InitRet([p EXCEPT !.iter = cur.iter], cur.err, d, cur.c)

RangeScanInit(p, d, c) ==
    LET cur == TxnCursor(d, c)
        sk == CursorSeek(cur.iter, Get(p.Start), d, cur.c)
    IN IF cur.err # NoErr THEN InitRet([p EXCEPT !.iter = cur.iter], cur.err, d, cur.c)
       ELSE IF p.Start # Nil THEN InitRet([p EXCEPT !.iter = sk.iter], sk.err, d, sk.c)
       ELSE InitRet([p EXCEPT !.iter = cur.iter], NoErr, d, cur.c)

\* faulty variant: the comparison with End is reversed
RECURSIVE RangeScanNextReversedEnd(_, _, _)
RangeScanNextReversedEnd(p, d, c) ==
    LET it == CursorNext(p.iter, d, c)
        q == [p EXCEPT !.iter = it.iter]
        fr == Filter(p.Filter, KVP(Get(it.key), Get(it.val)))
        cf == Ev(it.c, "Filter", d, it.key, fr.err)
    IN IF it.err # NoErr THEN RowRet(q, Nil, Nil, it.err, d, it.c)
       ELSE IF it.key = Nil THEN RowRet(q, Nil, Nil, NoErr, d, it.c)
       ELSE IF p.End # Nil /\ BytesCompare(Get(it.key), Get(p.End)) < 0
       THEN RowRet(q, Nil, Nil, NoErr, d, it.c)
       ELSE IF fr.err # NoErr THEN RowRet(q, Nil, Nil, fr.err, d, cf)
       ELSE IF fr.ok THEN RowRet(q, it.key, it.val, NoErr, d, cf)
       ELSE RangeScanNextReversedEnd(q, d, cf)

RECURSIVE RangeScanNext(_, _, _)
RangeScanNext(p, d, c) ==
    With(CursorNext(p.iter, d, c), LAMBDA it :
        LET q == [p EXCEPT !.iter = it.iter]
        IN IF it.err # NoErr THEN RowRet(q, Nil, Nil, it.err, d, it.c)
           ELSE IF it.key = Nil THEN RowRet(q, Nil, Nil, NoErr, d, it.c)
           ELSE IF p.End # Nil /\ BytesCompare(Get(it.key), Get(p.End)) > 0
           THEN RowRet(q, Nil, Nil, NoErr, d, it.c)
           ELSE With(Filter(p.Filter, KVP(Get(it.key), Get(it.val))), LAMBDA fr :
               LET cf == Ev(it.c, "Filter", d, it.key, fr.err)
               IN IF fr.err # NoErr THEN RowRet(q, Nil, Nil, fr.err, d, cf)
                  ELSE IF fr.ok THEN RowRet(q, it.key, it.val, NoErr, d, cf)
                  ELSE RangeScanNext(q, d, cf)))

MultiGetInit(p, d, c) == InitRet(p, NoErr, d, c)

\* faulty variant: the index moves on only after the lookup succeeded
RECURSIVE MultiGetNextRetries(_, _, _)
MultiGetNextRetries(p, d, c) ==
    LET key == p.Keys[p.idx + 1]
        g == TxnGet(key, d, c)
        q == [p EXCEPT !.idx = @ + 1]
        fr == Filter(p.Filter, KVP(key, Get(g.val)))
        cf == Ev(g.c, "Filter", d, Some(key), fr.err)
    IN IF p.idx >= p.numKeys THEN RowRet(p, Nil, Nil, NoErr, d, c)
       ELSE IF g.err # NoErr THEN RowRet(p, Nil, Nil, g.err, d, g.c)
       ELSE IF g.val = Nil THEN MultiGetNextRetries(q, d, g.c)
       ELSE IF fr.err # NoErr THEN RowRet(q, Nil, Nil, fr.err, d, cf)
       ELSE IF fr.ok THEN RowRet(q, Some(key), g.val, NoErr, d, cf)
       ELSE MultiGetNextRetries(q, d, cf)

RECURSIVE MultiGetNext(_, _, _)
MultiGetNext(p, d, c) ==
    IF p.idx >= p.numKeys THEN RowRet(p, Nil, Nil, NoErr, d, c)
    ELSE With(TxnGet(p.Keys[p.idx + 1], d, c), LAMBDA g :
        LET key == p.Keys[p.idx + 1]
            q == [p EXCEPT !.idx = @ + 1]
        IN IF g.err # NoErr THEN RowRet(q, Nil, Nil, g.err, d, g.c)
           ELSE IF g.val = Nil THEN MultiGetNext(q, d, g.c)
           ELSE With(Filter(p.Filter, KVP(key, Get(g.val))), LAMBDA fr :
               LET cf == Ev(g.c, "Filter", d, Some(key), fr.err)
               IN IF fr.err # NoErr THEN RowRet(q, Nil, Nil, fr.err, d, cf)
                  ELSE IF fr.ok THEN RowRet(q, Some(key), g.val, NoErr, d, cf)
                  ELSE MultiGetNext(q, d, cf)))

EmptyResultInit(p, d, c) == InitRet(p, NoErr, d, c)

EmptyResultNext(p, d, c) == RowRet(p, Nil, Nil, NoErr, d, c)

\* ---------------------------------------------------------------- limit plan

RECURSIVE PlanInit(_, _, _)
RECURSIVE PlanNext(_, _, _)

LimitInit(p, d, c) ==
    With(PlanInit(p.ChildPlan, d + 1, c), LAMBDA ci :
        InitRet([p EXCEPT !.current = 0, !.skips = 0, !.ChildPlan = ci.plan], ci.err, d, ci.c))

\* faulty variant: one row more than Count is let through
RECURSIVE LimitNextOffByOne(_, _, _)
LimitNextOffByOne(p, d, c) ==
    LET r == PlanNext(p.ChildPlan, d + 1, c)
        q == [p EXCEPT !.ChildPlan = r.plan]
    IN IF p.skips < p.Start
       THEN IF r.err # NoErr THEN RowRet(q, Nil, Nil, r.err, d, r.c)
            ELSE IF r.key = Nil /\ r.val = Nil THEN RowRet(q, Nil, Nil, NoErr, d, r.c)
            ELSE LimitNextOffByOne([q EXCEPT !.skips = @ + 1], d, r.c)
       ELSE IF p.current > p.Count THEN RowRet(p, Nil, Nil, NoErr, d, c)
       ELSE IF r.err # NoErr THEN RowRet(q, Nil, Nil, r.err, d, r.c)
       ELSE IF r.key = Nil /\ r.val = Nil THEN RowRet(q, Nil, Nil, NoErr, d, r.c)
       ELSE RowRet([q EXCEPT !.current = @ + 1], r.key, r.val, NoErr, d, r.c)

RECURSIVE LimitNext(_, _, _)
LimitNext(p, d, c) ==
    IF p.skips < p.Start
    THEN With(PlanNext(p.ChildPlan, d + 1, c), LAMBDA r :
        LET q == [p EXCEPT !.ChildPlan = r.plan]
        IN IF r.err # NoErr THEN RowRet(q, Nil, Nil, r.err, d, r.c)
           ELSE IF r.key = Nil /\ r.val = Nil THEN RowRet(q, Nil, Nil, NoErr, d, r.c)
           ELSE LimitNext([q EXCEPT !.skips = @ + 1], d, r.c))
    ELSE IF p.current >= p.Count THEN RowRet(p, Nil, Nil, NoErr, d, c)
    ELSE With(PlanNext(p.ChildPlan, d + 1, c), LAMBDA r :
        LET q == [p EXCEPT !.ChildPlan = r.plan]
        IN IF r.err # NoErr THEN RowRet(q, Nil, Nil, r.err, d, r.c)
           ELSE IF r.key = Nil /\ r.val = Nil THEN RowRet(q, Nil, Nil, NoErr, d, r.c)
           ELSE RowRet([q EXCEPT !.current = @ + 1], r.key, r.val, NoErr, d, r.c))

\* ---------------------------------------------------------------- order plan

OrderField(field, order) == [Field |-> field, Order |-> order]

\* faulty variant: the two outcomes of the ascending comparison are exchanged
compareIntSwapped(lval, rval, reverse) ==
    LET lint == convertToInt(lval).i
        rint == convertToInt(rval).i
    IN IF lint = rint THEN 0
       ELSE IF reverse THEN (IF lint > rint THEN -1 ELSE 1)
       ELSE IF lint < rint THEN 1 ELSE -1

compareInt(lval, rval, reverse) ==
    LET lint == convertToInt(lval).i
        rint == convertToInt(rval).i
    IN IF lint = rint THEN 0
       ELSE IF reverse THEN (IF lint > rint THEN -1 ELSE 1)
       ELSE IF lint < rint THEN -1 ELSE 1

compareBytes(lval, rval, reverse) ==
    LET lb == convertToByteArray(lval).b
        rb == convertToByteArray(rval).b
    IN IF reverse THEN 0 - BytesCompare(lb, rb) ELSE BytesCompare(lb, rb)

\* rval.(bool) panics when rval is no bool: the caller checks that first
compareBool(lval, rval, reverse) ==
    LET lint == IF lval.v THEN 1 ELSE 0
        rint == IF rval.v THEN 1 ELSE 0
    IN IF lint = rint THEN 0
       ELSE IF reverse THEN (IF lint > rint THEN -1 ELSE 1)
       ELSE IF lint < rint THEN -1 ELSE 1

\* faulty variant: only the first field is compared, a tie is "not less"
orderRowLessFirstFieldOnly(l, r, orders, i) ==
    LET lval == Execute(orders[1].Field, KVP(l.key, l.value)).val
        rval == Execute(orders[1].Field, KVP(r.key, r.value)).val
        desc == orders[1].Order = "DESC"
        compare == CASE lval.t = "int" -> compareInt(lval, rval, desc)
                     [] lval.t \in {"bytes", "string"} -> compareBytes(lval, rval, desc)
                     [] lval.t = "bool" -> compareBool(lval, rval, desc)
    IN IF lval.t \notin {"int", "bytes", "string", "bool"}
       THEN [less |-> FALSE, panic |-> FALSE]
       ELSE IF lval.t = "bool" /\ rval.t # "bool" THEN [less |-> FALSE, panic |-> TRUE]
       ELSE [less |-> compare < 0, panic |-> FALSE]

\* orderRow.Less from field number i on; the errors of Execute are dropped
RECURSIVE orderRowLessFrom(_, _, _, _)
orderRowLessFrom(l, r, orders, i) ==
    IF i > Len(orders) THEN [less |-> FALSE, panic |-> FALSE]
    ELSE With(Execute(orders[i].Field, KVP(l.key, l.value)).val, LAMBDA lval :
         With(Execute(orders[i].Field, KVP(r.key, r.value)).val, LAMBDA rval :
        LET desc == orders[i].Order = "DESC"
            compare == CASE lval.t = "int" -> compareInt(lval, rval, desc)
                         [] lval.t \in {"bytes", "string"} -> compareBytes(lval, rval, desc)
                         [] lval.t = "bool" -> compareBool(lval, rval, desc)
        IN IF lval.t \notin {"int", "bytes", "string", "bool"}
           THEN [less |-> FALSE, panic |-> FALSE]
           ELSE IF lval.t = "bool" /\ rval.t # "bool" THEN [less |-> FALSE, panic |-> TRUE]
           ELSE IF compare < 0 THEN [less |-> TRUE, panic |-> FALSE]
           ELSE IF compare > 0 THEN [less |-> FALSE, panic |-> FALSE]
           ELSE orderRowLessFrom(l, r, orders, i + 1)))

orderRowLess(l, r, orders) == orderRowLessFrom(l, r, orders, 1)

\* ---------------------------------------------------------------- final order rows

\* strconv.ParseInt(s, 10, 64): an optional sign, then one or more digits
ParseInt(b) ==
    LET signed == b # <<>> /\ Head(b) \in {43, 45}
        digits == IF signed THEN Tail(b) ELSE b
        mag == ParseDigits(digits, 0)
    IN IF IsDigits(digits)
       THEN [i |-> IF signed /\ Head(b) = 45 THEN 0 - mag ELSE mag, ok |-> TRUE]
       ELSE [i |-> 0, ok |-> FALSE]

\* "nan" in any case: the spelling of the float that is no number
IsNaNText(b) == Len(b) = 3 /\ b[1] \in {78, 110} /\ b[2] \in {65, 97} /\ b[3] \in {78, 110}

\* strconv.ParseFloat(s, 64) on decimal notation: an optional sign, digits with at
\* most one point and at least one digit, the value is m / 10^e; and on "NaN"
ParseFloat(b) ==
    LET signed == b # <<>> /\ Head(b) \in {43, 45}
        body == IF signed THEN Tail(b) ELSE b
        points == {i \in 1..Len(body) : body[i] = 46}
        pt == CHOOSE i \in points : TRUE
        ds == IF points = {} THEN body
              ELSE SubSeq(body, 1, pt - 1) \o SubSeq(body, pt + 1, Len(body))
        e == IF points = {} THEN 0 ELSE Len(body) - pt
        mag == ParseDigits(ds, 0)
    IN IF IsNaNText(b) THEN [m |-> 0, e |-> 0, nan |-> TRUE, ok |-> TRUE]
       ELSE IF Cardinality(points) <= 1 /\ IsDigits(ds)
       THEN [m |-> IF signed /\ Head(b) = 45 THEN 0 - mag ELSE mag, e |-> e,
             nan |-> FALSE, ok |-> TRUE]
       ELSE [m |-> 0, e |-> 0, nan |-> FALSE, ok |-> FALSE]

RECURSIVE Pow10(_)
Pow10(n) == IF n = 0 THEN 1 ELSE 10 * Pow10(n - 1)

colCompareBytes(lval, rval, reverse) ==
    IF reverse THEN 0 - BytesCompare(lval, rval) ELSE BytesCompare(lval, rval)

colCompareBool(lval, rval, reverse) ==
    LET lint == IF lval = <<116, 114, 117, 101>> THEN 1 ELSE 0
        rint == IF rval = <<116, 114, 117, 101>> THEN 1 ELSE 0
    IN IF lint = rint THEN 0
       ELSE IF reverse THEN (IF lint > rint THEN -1 ELSE 1)
       ELSE IF lint < rint THEN -1 ELSE 1

colCompareInt(lval, rval, reverse) ==
    IF lval = rval THEN 0
    ELSE IF reverse THEN (IF lval > rval THEN -1 ELSE 1)
    ELSE IF lval < rval THEN -1 ELSE 1

\* == and < of float64: both are false when an operand is NaN
FloatEq(a, b) == ~a.nan /\ ~b.nan /\ a.m * Pow10(b.e) = b.m * Pow10(a.e)
FloatLess(a, b) == ~a.nan /\ ~b.nan /\ a.m * Pow10(b.e) < b.m * Pow10(a.e)

colCompareFloat(lval, rval, reverse) ==
    IF FloatEq(lval, rval) THEN 0
    ELSE IF reverse THEN (IF FloatLess(rval, lval) THEN -1 ELSE 1)
    ELSE IF FloatLess(lval, rval) THEN -1 ELSE 1

compareNumber(lval, rval, reverse) ==
    IF ParseInt(lval).ok /\ ParseInt(rval).ok
    THEN colCompareInt(ParseInt(lval).i, ParseInt(rval).i, reverse)
    ELSE IF ParseFloat(lval).ok /\ ParseFloat(rval).ok
    THEN colCompareFloat(ParseFloat(lval), ParseFloat(rval), reverse)
    ELSE 0

RECURSIVE orderColumnsRowLessFrom(_, _, _, _)
orderColumnsRowLessFrom(l, r, lt, i) ==
    IF i > Len(lt.orders) THEN [less |-> FALSE, panic |-> FALSE]
    ELSE With(lt.orderTypes[i], LAMBDA tp :
        IF tp \notin {"TSTR", "TBOOL", "TNUMBER"} THEN [less |-> FALSE, panic |-> FALSE]
        ELSE With(CASE tp = "TSTR" ->
                         colCompareBytes(l[lt.orderPos[i]], r[lt.orderPos[i]],
                                         lt.orders[i].Order = "DESC")
                    [] tp = "TBOOL" ->
                         colCompareBool(l[lt.orderPos[i]], r[lt.orderPos[i]],
                                        lt.orders[i].Order = "DESC")
                    [] tp = "TNUMBER" ->
                         compareNumber(l[lt.orderPos[i]], r[lt.orderPos[i]],
                                       lt.orders[i].Order = "DESC"),
                  LAMBDA compare :
            IF compare < 0 THEN [less |-> TRUE, panic |-> FALSE]
            ELSE IF compare > 0 THEN [less |-> FALSE, panic |-> FALSE]
            ELSE orderColumnsRowLessFrom(l, r, lt, i + 1)))

orderColumnsRowLess(l, r, lt) == orderColumnsRowLessFrom(l, r, lt, 1)

\* ---------------------------------------------------------------- container/heap
\* A heap is [s: the slice, panic: a Less panicked]; lt says whose Less it is:
\* orderRowHeap's (rows) or orderColumnsRowHeap's (column tuples).

RowLess(orders) == [kind |-> "row", orders |-> orders]

ColLess(orders, orderPos, orderTypes) ==
    [kind |-> "cols", orders |-> orders, orderPos |-> orderPos, orderTypes |-> orderTypes]

heapLess(s, i, j, lt) ==
    IF lt.kind = "row" THEN orderRowLess(s[i], s[j], lt.orders)
    ELSE orderColumnsRowLess(s[i], s[j], lt)

Swap(s, i, j) == [s EXCEPT ![i] = s[j], ![j] = s[i]]

RECURSIVE up(_, _, _)
up(h, j, lt) ==
    LET i == IF j = 1 THEN 1 ELSE j \div 2
    IN IF h.panic \/ i = j THEN h
       ELSE With(heapLess(h.s, j, i, lt), LAMBDA ls :
           IF ls.panic THEN [h EXCEPT !.panic = TRUE]
           ELSE IF ~ls.less THEN h
           ELSE up([h EXCEPT !.s = Swap(h.s, i, j)], i, lt))

RECURSIVE down(_, _, _, _)
down(h, i, n, lt) ==
    LET j1 == 2 * i
        j2 == j1 + 1
    IN IF h.panic \/ j1 > n THEN h
       ELSE With(IF j2 <= n THEN heapLess(h.s, j2, j1, lt)
                 ELSE [less |-> FALSE, panic |-> FALSE], LAMBDA l21 :
           IF l21.panic THEN [h EXCEPT !.panic = TRUE]
           ELSE With(IF l21.less THEN j2 ELSE j1, LAMBDA j :
                With(heapLess(h.s, j, i, lt), LAMBDA lji :
               IF lji.panic THEN [h EXCEPT !.panic = TRUE]
               ELSE IF ~lji.less THEN h
               ELSE down([h EXCEPT !.s = Swap(h.s, i, j)], j, n, lt))))

heapPush(s, x, lt) ==
    up([s |-> Append(s, x), panic |-> FALSE], Len(s) + 1, lt)

\* the popped element is the last one of the slice after the sift
heapPop(s, lt) ==
    IF s = <<>> THEN [s |-> s, panic |-> TRUE]
    ELSE down([s |-> Swap(s, 1, Len(s)), panic |-> FALSE], 1, Len(s) - 1, lt)

\* ---------------------------------------------------------------- order plan methods

OrderInit(p, d, c) ==
    With(PlanInit(p.ChildPlan, d + 1, c), LAMBDA ci :
        InitRet([p EXCEPT !.pos = 0, !.total = 0, !.sorted = <<>>, !.ChildPlan = ci.plan],
                NoErr, d, ci.c))

RECURSIVE orderPrepare(_, _, _)
orderPrepare(p, d, c) ==
    With(PlanNext(p.ChildPlan, d + 1, c), LAMBDA r :
        LET q == [p EXCEPT !.ChildPlan = r.plan]
        IN IF r.err # NoErr THEN [plan |-> q, err |-> r.err, c |-> r.c]
           ELSE IF r.key = Nil /\ r.val = Nil THEN [plan |-> q, err |-> NoErr, c |-> r.c]
           ELSE With(heapPush(p.sorted, [key |-> Get(r.key), value |-> Get(r.val)],
                              RowLess(p.Orders)), LAMBDA h :
               IF h.panic THEN [plan |-> q, err |-> ErrPanic, c |-> r.c]
               ELSE orderPrepare([q EXCEPT !.sorted = h.s, !.total = @ + 1], d, r.c)))

\* faulty variant: a row is popped also when pos = total
OrderNextPopsAtEnd(p, d, c) ==
    LET pr == IF p.total = 0 THEN orderPrepare(p, d, c)
              ELSE [plan |-> p, err |-> NoErr, c |-> c]
        q == pr.plan
        h == heapPop(q.sorted, RowLess(q.Orders))
        row == h.s[Len(h.s)]
    IN IF pr.err # NoErr THEN RowRet(q, Nil, Nil, pr.err, d, pr.c)
       ELSE IF q.pos > q.total THEN RowRet(q, Nil, Nil, NoErr, d, pr.c)
       ELSE IF h.panic THEN RowRet(q, Nil, Nil, ErrPanic, d, pr.c)
       ELSE RowRet([q EXCEPT !.sorted = SubSeq(h.s, 1, Len(h.s) - 1), !.pos = @ + 1],
                   Some(row.key), Some(row.value), NoErr, d, pr.c)

OrderNext(p, d, c) ==
    With(IF p.total = 0 THEN orderPrepare(p, d, c)
         ELSE [plan |-> p, err |-> NoErr, c |-> c], LAMBDA pr :
        LET q == pr.plan
        IN IF pr.err # NoErr THEN RowRet(q, Nil, Nil, pr.err, d, pr.c)
           ELSE IF q.pos >= q.total THEN RowRet(q, Nil, Nil, NoErr, d, pr.c)
           ELSE With(heapPop(q.sorted, RowLess(q.Orders)), LAMBDA h :
               LET row == h.s[Len(h.s)]
               IN IF h.panic THEN RowRet(q, Nil, Nil, ErrPanic, d, pr.c)
                  ELSE RowRet([q EXCEPT !.sorted = SubSeq(h.s, 1, Len(h.s) - 1),
                                        !.pos = @ + 1],
                              Some(row.key), Some(row.value), NoErr, d, pr.c)))

\* ---------------------------------------------------------------- row plan dispatch

PlanInit(p, d, c) ==
    CASE p.kind = "FullScanPlan" -> FullScanInit(p, d, c)
      [] p.kind = "PrefixScanPlan" -> PrefixScanInit(p, d, c)
      [] p.kind = "RangeScanPlan" -> RangeScanInit(p, d, c)
      [] p.kind = "MultiGetPlan" -> MultiGetInit(p, d, c)
      [] p.kind = "EmptyResultPlan" -> EmptyResultInit(p, d, c)
      [] p.kind = "LimitPlan" -> LimitInit(p, d, c)
      [] p.kind = "OrderPlan" -> OrderInit(p, d, c)

PlanNext(p, d, c) ==
    CASE p.kind = "FullScanPlan" -> FullScanNext(p, d, c)
      [] p.kind = "PrefixScanPlan" -> PrefixScanNext(p, d, c)
      [] p.kind = "RangeScanPlan" -> RangeScanNext(p, d, c)
      [] p.kind = "MultiGetPlan" -> MultiGetNext(p, d, c)
      [] p.kind = "EmptyResultPlan" -> EmptyResultNext(p, d, c)
      [] p.kind = "LimitPlan" -> LimitNext(p, d, c)
      [] p.kind = "OrderPlan" -> OrderNext(p, d, c)

\* ---------------------------------------------------------------- column-stream plans

RECURSIVE FinalInit(_, _, _)
RECURSIVE FinalNext(_, _, _)

\* the final plan under the column-stream plans: the columns are (key, value)
ProjectionInit(p, d, c) ==
    With(PlanInit(p.ChildPlan, d + 1, c), LAMBDA ci :
        InitRet([p EXCEPT !.ChildPlan = ci.plan], ci.err, d, ci.c))

ProjectionNext(p, d, c) ==
    With(PlanNext(p.ChildPlan, d + 1, c), LAMBDA r :
        LET q == [p EXCEPT !.ChildPlan = r.plan]
        IN IF r.err # NoErr THEN ColRet(q, Nil, r.err, d, r.c)
           ELSE IF r.key = Nil /\ r.val = Nil THEN ColRet(q, Nil, NoErr, d, r.c)
           ELSE ColRet(q, Some(<<Get(r.key), Get(r.val)>>), NoErr, d, r.c))

FinalLimitInit(p, d, c) ==
    With(FinalInit(p.ChildPlan, d + 1, c), LAMBDA ci :
        InitRet([p EXCEPT !.current = 0, !.skips = 0, !.ChildPlan = ci.plan], ci.err, d, ci.c))

\* faulty variant: one row more than Start is skipped
RECURSIVE FinalLimitNextSkipsOneMore(_, _, _)
FinalLimitNextSkipsOneMore(p, d, c) ==
    LET r == FinalNext(p.ChildPlan, d + 1, c)
        q == [p EXCEPT !.ChildPlan = r.plan]
    IN IF p.skips <= p.Start
       THEN IF r.err # NoErr THEN ColRet(q, Nil, r.err, d, r.c)
            ELSE IF r.cols = Nil THEN ColRet(q, Nil, NoErr, d, r.c)
            ELSE FinalLimitNextSkipsOneMore([q EXCEPT !.skips = @ + 1], d, r.c)
       ELSE IF p.current >= p.Count THEN ColRet(p, Nil, NoErr, d, c)
       ELSE IF r.err # NoErr THEN ColRet(q, Nil, r.err, d, r.c)
       ELSE IF r.cols = Nil THEN ColRet(q, Nil, NoErr, d, r.c)
       ELSE ColRet([q EXCEPT !.current = @ + 1], r.cols, NoErr, d, r.c)

RECURSIVE FinalLimitNext(_, _, _)
FinalLimitNext(p, d, c) ==
    IF p.skips < p.Start
    THEN With(FinalNext(p.ChildPlan, d + 1, c), LAMBDA r :
        LET q == [p EXCEPT !.ChildPlan = r.plan]
        IN IF r.err # NoErr THEN ColRet(q, Nil, r.err, d, r.c)
           ELSE IF r.cols = Nil THEN ColRet(q, Nil, NoErr, d, r.c)
           ELSE FinalLimitNext([q EXCEPT !.skips = @ + 1], d, r.c))
    ELSE IF p.current >= p.Count THEN ColRet(p, Nil, NoErr, d, c)
    ELSE With(FinalNext(p.ChildPlan, d + 1, c), LAMBDA r :
        LET q == [p EXCEPT !.ChildPlan = r.plan]
        IN IF r.err # NoErr THEN ColRet(q, Nil, r.err, d, r.c)
           ELSE IF r.cols = Nil THEN ColRet(q, Nil, NoErr, d, r.c)
           ELSE ColRet([q EXCEPT !.current = @ + 1], r.cols, NoErr, d, r.c))

\* the position of the order column in FieldNames (0 with found = FALSE if absent)
findOrderIdx(p, o) ==
    LET hit == {i \in 1..Len(p.FieldNames) : p.FieldNames[i] = o.Name}
    IN IF hit = {} THEN [idx |-> 0, found |-> FALSE]
       ELSE [idx |-> CHOOSE i \in hit : \A j \in hit : i <= j, found |-> TRUE]

FinalOrderInit(p, d, c) ==
    LET n == Len(p.Orders)
        missing == {i \in 1..n : ~findOrderIdx(p, p.Orders[i]).found}
        stop == IF missing = {} THEN n + 1 ELSE CHOOSE i \in missing : \A j \in missing : i <= j
        q == [p EXCEPT !.pos = 0, !.total = 0,
                       !.orderPos = [i \in 1..(stop - 1) |-> findOrderIdx(p, p.Orders[i]).idx],
                       !.orderTypes = [i \in 1..(stop - 1) |-> ReturnType(p.Orders[i].Field)]]
        ci == FinalInit(p.ChildPlan, d + 1, c)
    IN IF missing # {} THEN InitRet(q, "Cannot find field", d, c)
       ELSE InitRet([q EXCEPT !.sorted = <<>>, !.ChildPlan = ci.plan], NoErr, d, ci.c)

RECURSIVE finalOrderPrepare(_, _, _)
finalOrderPrepare(p, d, c) ==
    With(FinalNext(p.ChildPlan, d + 1, c), LAMBDA r :
        LET q == [p EXCEPT !.ChildPlan = r.plan]
        IN IF r.err # NoErr THEN [plan |-> q, err |-> r.err, c |-> r.c]
           ELSE IF r.cols = Nil THEN [plan |-> q, err |-> NoErr, c |-> r.c]
           ELSE With(heapPush(p.sorted, Get(r.cols),
                              ColLess(p.Orders, p.orderPos, p.orderTypes)), LAMBDA h :
               IF h.panic THEN [plan |-> q, err |-> ErrPanic, c |-> r.c]
               ELSE finalOrderPrepare([q EXCEPT !.sorted = h.s, !.total = @ + 1], d, r.c)))

FinalOrderNext(p, d, c) ==
    With(IF p.total = 0 THEN finalOrderPrepare(p, d, c)
         ELSE [plan |-> p, err |-> NoErr, c |-> c], LAMBDA pr :
        LET q == pr.plan
        IN IF pr.err # NoErr THEN ColRet(q, Nil, pr.err, d, pr.c)
           ELSE IF q.pos >= q.total THEN ColRet(q, Nil, NoErr, d, pr.c)
           ELSE With(heapPop(q.sorted, ColLess(q.Orders, q.orderPos, q.orderTypes)),
                     LAMBDA h :
               IF h.panic THEN ColRet(q, Nil, ErrPanic, d, pr.c)
               ELSE ColRet([q EXCEPT !.sorted = SubSeq(h.s, 1, Len(h.s) - 1), !.pos = @ + 1],
                           Some(h.s[Len(h.s)]), NoErr, d, pr.c)))

FinalInit(p, d, c) ==
    CASE p.kind = "ProjectionPlan" -> ProjectionInit(p, d, c)
      [] p.kind = "FinalLimitPlan" -> FinalLimitInit(p, d, c)
      [] p.kind = "FinalOrderPlan" -> FinalOrderInit(p, d, c)

FinalNext(p, d, c) ==
    CASE p.kind = "ProjectionPlan" -> ProjectionNext(p, d, c)
      [] p.kind = "FinalLimitPlan" -> FinalLimitNext(p, d, c)
      [] p.kind = "FinalOrderPlan" -> FinalOrderNext(p, d, c)

\* ---------------------------------------------------------------- inputs

Ka == <<97>>
Ka1 == <<97, 49>>
Kb == <<98>>
Kb1 == <<98, 49>>
KeyU == {Ka, Ka1, Kb, Kb1}

V1 == <<49>>
V2 == <<50>>
V3 == <<51>>
ValU == {V1, V2, V3}

RowsOf(f) ==
    LET ks == SetToSortedSeq(DOMAIN f)
    IN [i \in 1..Len(ks) |-> [key |-> ks[i], value |-> f[ks[i]]]]

Stores ==
    {RowsOf(f) : f \in UNION {[S -> ValU] : S \in {T \in SUBSET KeyU : Cardinality(T) <= MaxRows}}}

\* the stores with keys "a", "b", "c", ...: for the plans that never look at a
\* key, only the number of rows and their values matter
DenseStoresUpTo(m) ==
    UNION {{[i \in 1..n |-> [key |-> <<96 + i>>, value |-> v[i]]] : v \in [1..n -> ValU]} :
           n \in 0..m}

DenseStores == DenseStoresUpTo(MaxRows)

\* the ordering plans at the root sort up to MaxSortRows rows
SortStores == DenseStoresUpTo(MaxSortRows)

\* where true
FTrue == BoolExpr(TRUE)

\* where value = '1' | (value = '3' & key): true on "1", false on "2", an error on "3"
FMix ==
    BinaryOpExpr("Or",
        BinaryOpExpr("Eq", FieldExpr("ValueKW"), StringExpr(V1)),
        BinaryOpExpr("And",
            BinaryOpExpr("Eq", FieldExpr("ValueKW"), StringExpr(V3)),
            FieldExpr("KeyKW")))

Filters == {FTrue, FMix}

\* order by int(value)
IntOfValue == FunctionCallExpr("int", <<FieldExpr("ValueKW")>>)

KeyLists == UNION {[1..n -> {Ka, Ka1, Kb}] : n \in 0..2}

Bounds == {Nil, Some(Ka1), Some(Kb)}

\* FMix is "where true" on a store whose values are all "1"
KeyedPlans ==
    {NewPrefixScanPlan(FMix, p) : p \in {Ka, Kb}}
    \cup {NewRangeScanPlan(FMix, s, e) : s \in Bounds, e \in Bounds}

ScanPlans == {NewFullScanPlan(f) : f \in Filters} \cup {NewEmptyResultPlan}

Child == NewFullScanPlan(FMix)

\* the child of the ordering plans lets every row through
OrderChild == NewFullScanPlan(FTrue)

Windows == (0..MaxStart) \X (0..MaxCount)

RowOrders == {<<OrderField(IntOfValue, o)>> : o \in {"ASC", "DESC"}}

OrderPlans == {OrderPlan(o, OrderChild) : o \in RowOrders}

\* order by value = '1' (a boolean), by value (a string), by key (a string, no ties)
IsOne == BinaryOpExpr("Eq", FieldExpr("ValueKW"), StringExpr(V1))

Directions == {"ASC", "DESC"}

\* two and three fields; the last one is the key, which breaks every tie
MultiOrders ==
    {<<OrderField(f, o1), OrderField(FieldExpr("KeyKW"), o2)>> :
        f \in {IsOne, FieldExpr("ValueKW"), IntOfValue}, o1 \in Directions, o2 \in Directions}
    \cup {<<OrderField(IsOne, o1), OrderField(IntOfValue, o2), OrderField(FieldExpr("KeyKW"), o3)>> :
            o1 \in Directions, o2 \in Directions, o3 \in Directions}

\* order by int(key): the keys are no digits, the evaluation fails on every row
IntOfKey == FunctionCallExpr("int", <<FieldExpr("KeyKW")>>)

\* a field the row does not have: its declared type is STRING, its evaluation fails
NoSuchField == FieldExpr("RowKW")

FailingOrders == {<<OrderField(f, o)>> : f \in {IntOfKey, NoSuchField}, o \in Directions}

MultiOrderPlans == {OrderPlan(o, OrderChild) : o \in MultiOrders \cup FailingOrders}

LimitPlans ==
    {LimitPlan(w[1], w[2], ch) :
        w \in Windows,
        ch \in {Child, OrderPlan(<<OrderField(IntOfValue, "ASC")>>, OrderChild)}}

FieldNames == <<"key", "value">>

ColOrders ==
    {<<FinalOrderField("value", IntOfValue, o)>> : o \in {"ASC", "DESC"}}

FinalPlans ==
    {ProjectionPlan(Child)}
    \cup {FinalLimitPlan(w[1], w[2], ProjectionPlan(Child)) : w \in Windows}

FinalOrderPlans ==
    {FinalOrderPlan(o, FieldNames, ProjectionPlan(OrderChild)) : o \in ColOrders}

\* "x": a column text that parses neither as an integer nor as a float
Vx == <<120>>

\* the stores in which the value of some row is no number
TextStores ==
    UNION {{[i \in 1..n |-> [key |-> <<96 + i>>, value |-> v[i]]] :
                v \in [1..n -> ValU \cup {Vx}] \ [1..n -> ValU]} :
           n \in 1..MaxSortRows}

IsFinal(p) == p.kind \in {"ProjectionPlan", "FinalLimitPlan", "FinalOrderPlan"}

\* ---------------------------------------------------------------- the state machine

NoRet == [key |-> Nil, val |-> Nil, cols |-> Nil, err |-> NoErr]

Init ==
    /\ \/ /\ store \in DenseStores
          /\ orig = <<>>
          /\ plan \in ScanPlans \cup LimitPlans \cup FinalPlans
       \/ /\ store \in SortStores
          /\ orig = <<>>
          /\ plan \in OrderPlans \cup FinalOrderPlans
       \/ /\ store \in TextStores
          /\ orig = <<>>
          /\ plan \in FinalOrderPlans
       \/ /\ store \in DenseStores
          /\ orig = <<>>
          /\ plan \in MultiOrderPlans
       \/ /\ store \in Stores
          /\ orig = <<>>
          /\ plan \in KeyedPlans
       \/ /\ store \in Stores
          /\ orig \in KeyLists
          /\ plan = NewMultiGetPlan(FMix, orig)
    /\ phase = "new"
    /\ ret = NoRet
    /\ out = <<>>
    /\ calls = 0
    /\ faults = 0
    /\ log = <<>>
    /\ done = {}
    /\ call = Nil
    /\ returned = Nil

PlanKinds ==
    {"FullScanPlan", "PrefixScanPlan", "RangeScanPlan", "MultiGetPlan", "EmptyResultPlan",
     "LimitPlan", "OrderPlan", "ProjectionPlan", "FinalLimitPlan", "FinalOrderPlan"}

\* the plans that returned end-of-stream inside a call with this trace
Ended(l) ==
    {l[i].src : i \in {j \in 1..Len(l) :
        l[j].src \in PlanKinds /\ l[j].key = Nil /\ l[j].err = NoErr}}

FaultAt == IF faults < MaxFaults THEN 0..MaxFaultAt ELSE {0}

Faulted(c) == \E i \in 1..Len(c.log) : c.log[i].err = ErrStorage

\* a fault ordinal beyond the storage calls of this call is no fault at all
Effective(f, c) == f = 0 \/ Faulted(c)

CallInit ==
    /\ phase = "new"
    /\ \E f \in FaultAt :
        \E r \in {IF IsFinal(plan) THEN FinalInit(plan, 1, Ctx(f))
                  ELSE PlanInit(plan, 1, Ctx(f))} :
           /\ Effective(f, r.c)
           /\ plan' = r.plan
           /\ phase' = IF r.err = NoErr THEN "ready" ELSE "failed"
           /\ ret' = [NoRet EXCEPT !.err = r.err]
           /\ faults' = IF Faulted(r.c) THEN faults + 1 ELSE faults
           /\ log' = r.c.log
    /\ UNCHANGED <<store, orig, out, calls, done, call, returned>>

CallNext ==
    /\ phase = "ready"
    /\ ~IsFinal(plan)
    /\ calls < MaxCalls
    /\ \E f \in FaultAt :
        \E r \in {PlanNext(plan, 1, Ctx(f))} :
           /\ Effective(f, r.c)
           /\ plan' = r.plan
           /\ phase' = IF r.err = ErrPanic THEN "failed" ELSE phase
           /\ ret' = [key |-> r.key, val |-> r.val, cols |-> Nil, err |-> r.err]
           /\ out' = IF r.key # Nil THEN Append(out, <<Get(r.key), Get(r.val)>>) ELSE out
           /\ faults' = IF Faulted(r.c) THEN faults + 1 ELSE faults
           /\ log' = r.c.log
           /\ done' = done \cup Ended(r.c.log)
    /\ calls' = calls + 1
    /\ UNCHANGED <<store, orig, call, returned>>

CallFinalNext ==
    /\ phase = "ready"
    /\ IsFinal(plan)
    /\ calls < MaxCalls
    /\ \E f \in FaultAt :
        \E r \in {FinalNext(plan, 1, Ctx(f))} :
           /\ Effective(f, r.c)
           /\ plan' = r.plan
           /\ phase' = IF r.err = ErrPanic THEN "failed" ELSE phase
           /\ ret' = [key |-> Nil, val |-> Nil, cols |-> r.cols, err |-> r.err]
           /\ out' = IF r.cols # Nil THEN Append(out, Get(r.cols)) ELSE out
           /\ faults' = IF Faulted(r.c) THEN faults + 1 ELSE faults
           /\ log' = r.c.log
           /\ done' = done \cup Ended(r.c.log)
    /\ calls' = calls + 1
    /\ UNCHANGED <<store, orig, call, returned>>

Next == CallInit \/ CallNext \/ CallFinalNext

Spec == Init /\ [][Next]_vars

\* ---------------------------------------------------------------- the expression engine
\* One call of a function of the expression engine on arguments drawn from bounded
\* sets; the plan variables stay in their initial state.

\* the row every expression is evaluated on
EvalRow == KVP(Ka, V1)

StringLits == {StringExpr(<<97>>), StringExpr(<<109>>), StringExpr(<<122>>)}
NumberLits == {NumberExpr(1), NumberExpr(2), NumberExpr(3)}
Lits == StringLits \cup NumberLits

\* left between [lower, upper], and lists that are no pair of bounds
BetweenExprs ==
    {BinaryOpExpr("Between", l, ListExpr(<<lo, hi>>)) :
        l \in Lits \cup {FieldExpr("KeyKW")}, lo \in Lits, hi \in Lits}
    \cup {BinaryOpExpr("Between", l, r) :
            l \in {StringExpr(<<109>>), NumberExpr(2)},
            r \in {ListExpr(<<>>), ListExpr(<<NumberExpr(1)>>), NumberExpr(1)}}

MaxListLen == 3

\* left in [e1, ..., en] with n <= MaxListLen
InExprs ==
    {BinaryOpExpr("In", l, ListExpr(es)) :
        l \in {StringExpr(<<97>>), StringExpr(<<109>>), NumberExpr(1), FieldExpr("KeyKW")},
        es \in UNION {[1..n -> {StringExpr(<<97>>), StringExpr(<<109>>), NumberExpr(1),
                                NumberExpr(2), NoSuchField}] : n \in 0..MaxListLen}}

\* operands of the logical operators: booleans, values that are no booleans, an
\* operand that fails, and logical expressions again
Operands ==
    {BoolExpr(TRUE), BoolExpr(FALSE), StringExpr(<<97>>), NumberExpr(1), NoSuchField,
     NotExpr(BoolExpr(TRUE)), BinaryOpExpr("Or", BoolExpr(FALSE), BoolExpr(TRUE))}

LogicalExprs == {BinaryOpExpr(op, l, r) : op \in {"And", "Or"}, l \in Operands, r \in Operands}

\* an expression that evaluates to v: a function call that holds v as its result
Const(v) == [FunctionCallExpr("json", <<>>) EXCEPT !.Result = Some(v)]

MaxIndex == 2

\* mappings, lists, strings and values of other types
BaseValues ==
    <<VMap(<<>>), VMap(<<Entry(<<97>>, VInt(1))>>),
      VMap(<<Entry(<<97>>, VInt(1)), Entry(<<98>>, VStr(<<120>>))>>),
      VList(<<>>), VList(<<VInt(1)>>), VList(<<VInt(1), VStr(<<120>>)>>),
      VStr(<<>>), VStr(<<120>>), VBytes(<<>>), VBytes(<<120>>), VInt(1), VBool(TRUE)>>

\* the base expressions: one per base value, then names and fields of the row
Bases ==
    [i \in 1..Len(BaseValues) |-> Const(BaseValues[i])]
    \o <<NameExpr(<<>>), NameExpr(<<120>>), FieldExpr("KeyKW"), NoSuchField>>

\* .a, .b, .c, [-MaxIndex] ... [MaxIndex] and an accessor that is neither
Accessors ==
    {StringExpr(<<97>>), StringExpr(<<98>>), StringExpr(<<99>>), BoolExpr(TRUE)}
    \cup {NumberExpr(i) : i \in (0 - MaxIndex)..MaxIndex}

EvalExprs == BetweenExprs \cup InExprs \cup LogicalExprs

EvalCalls == {[fn |-> "Execute", e |-> e, kv |-> EvalRow] : e \in EvalExprs}

\* serialized column values: "1", "2", "10", "-1", "1.5", "1.50", "2.", "abc", "def",
\* "" and "NaN"
ColumnTexts ==
    {<<49>>, <<50>>, <<49, 48>>, <<45, 49>>, <<49, 46, 53>>, <<49, 46, 53, 48>>, <<50, 46>>,
     <<97, 98, 99>>, <<100, 101, 102>>, <<>>, <<78, 97, 78>>}

MaxBatch == 3

\* a chunk of up to MaxBatch rows with one key and the values "1", "2", "3": FMix is
\* true, false and an error on them
Chunks == UNION {[1..n -> {KVP(Ka, v) : v \in ValU}] : n \in 0..MaxBatch}

\* where true; where value = '1' | ...; where value; where !(value = '2')
BatchFilters ==
    {FTrue, FMix, FieldExpr("ValueKW"),
     NotExpr(BinaryOpExpr("Eq", FieldExpr("ValueKW"), StringExpr(V2)))}

FilterBatchCalls ==
    {[fn |-> "FilterBatch", ast |-> a, chunk |-> c] : a \in BatchFilters, c \in Chunks}

CompareCalls ==
    {[fn |-> "compareNumber", lval |-> l, rval |-> r, reverse |-> d] :
        l \in ColumnTexts, r \in ColumnTexts, d \in BOOLEAN}

EvalInit ==
    /\ store = <<>>
    /\ orig = <<>>
    /\ plan = NewEmptyResultPlan
    /\ phase = "new"
    /\ ret = NoRet
    /\ out = <<>>
    /\ calls = 0
    /\ faults = 0
    /\ log = <<>>
    /\ done = {}
    /\ \/ call \in EvalCalls
       \/ call \in CompareCalls
       \/ call \in FilterBatchCalls
       \/ \E i \in 1..Len(Bases), f \in Accessors :
             call = [fn |-> "Execute", e |-> FieldAccessExpr(Bases[i], f), kv |-> EvalRow]
    /\ returned = Nil

CallExecute ==
    /\ call.fn = "Execute"
    /\ returned = Nil
    /\ returned' = Some(Execute(call.e, call.kv))
    /\ UNCHANGED <<store, orig, plan, phase, ret, out, calls, faults, log, done, call>>

CallCompareNumber ==
    /\ call.fn = "compareNumber"
    /\ returned = Nil
    /\ returned' = Some(compareNumber(call.lval, call.rval, call.reverse))
    /\ UNCHANGED <<store, orig, plan, phase, ret, out, calls, faults, log, done, call>>

CallFilterBatch ==
    /\ call.fn = "FilterBatch"
    /\ returned = Nil
    /\ returned' = Some(FilterBatch(call.ast, call.chunk))
    /\ UNCHANGED <<store, orig, plan, phase, ret, out, calls, faults, log, done, call>>

EvalNext == CallExecute \/ CallCompareNumber \/ CallFilterBatch

EvalSpec == EvalInit /\ [][EvalNext]_vars

\* ---------------------------------------------------------------- properties

IsSentinel(r) == r.key = Nil /\ r.val = Nil /\ r.cols = Nil /\ r.err = NoErr

IsRow(r) == r.key # Nil \/ r.cols # Nil

StorageFault == \E i \in 1..Len(log) : log[i].err = ErrStorage

IsPrefix(s, t) == Len(s) <= Len(t) /\ SubSeq(t, 1, Len(s)) = s

\* C1: once Next of the root plan has returned the end-of-stream sentinel, every
\* later Next call returns the sentinel again; the only other result is the error of
\* a storage call that failed inside that very call, and never a row.
C1_SentinelIsFinal ==
    (calls > 0 /\ plan.kind \in done) =>
        /\ ~IsRow(ret)
        /\ (IsSentinel(ret) \/ (ret.err = ErrStorage /\ StorageFault))

\* a prefix scan that yielded rows, ended at the first key without the prefix, and
\* was called again while the cursor still had a key to give
C1_Witness ==
    /\ plan.kind = "PrefixScanPlan"
    /\ plan.kind \in done
    /\ faults = 0
    /\ \A i \in 1..Len(store) : store[i].value # V3
    /\ out # <<>>
    /\ calls >= Len(out) + 2
    /\ IsSentinel(ret)
    /\ \E i \in 1..Len(log) : log[i].src = "Cursor.Next" /\ log[i].key # Nil

\* C2: a row returned by a full, prefix or range scan passes the filter; a prefix
\* scan's key starts with Prefix; a range scan's key lies in [Start, End].
C2_ScanRowsMatch ==
    (plan.kind \in {"FullScanPlan", "PrefixScanPlan", "RangeScanPlan"} /\ ret.key # Nil) =>
        /\ Filter(plan.Filter, KVP(Get(ret.key), Get(ret.val))) = [ok |-> TRUE, err |-> NoErr]
        /\ plan.kind = "PrefixScanPlan" => HasPrefix(Get(ret.key), plan.Prefix)
        /\ plan.kind = "RangeScanPlan" =>
            /\ plan.Start # Nil => BytesCompare(Get(plan.Start), Get(ret.key)) <= 0
            /\ plan.End # Nil => BytesCompare(Get(ret.key), Get(plan.End)) <= 0

\* a range scan with both bounds returned a row after skipping a row the filter refused
C2_Witness ==
    /\ plan.kind = "RangeScanPlan"
    /\ plan.Start # Nil /\ plan.End # Nil
    /\ ret.key # Nil
    /\ \E i \in 1..Len(store) :
        /\ BytesCompare(Get(plan.Start), store[i].key) <= 0
        /\ BytesCompare(store[i].key, Get(ret.key)) < 0
        /\ store[i].value = V2

\* the rows of the store as the (key, value) pairs a plan yields
Pair(row) == <<row.key, row.value>>

Pairs(rows) == [i \in 1..Len(rows) |-> Pair(rows[i])]

Passes(ast, row) == Filter(ast, KVP(row.key, row.value)) = [ok |-> TRUE, err |-> NoErr]

NoFilterError(ast) ==
    \A i \in 1..Len(store) : Filter(ast, KVP(store[i].key, store[i].value)).err = NoErr

\* what a full scan with this filter yields when nothing fails
ScanRows(ast) ==
    LET Test(row) == Passes(ast, row) IN Pairs(SelectSeq(store, Test))

Count(x, s) == Cardinality({i \in 1..Len(s) : s[i] = x})

Ended1 == calls > 0 /\ IsSentinel(ret)

\* C3: over a child that yields r1..rn without errors, LimitPlan{Start, Count} yields
\* exactly r(Start+1) .. r(min(n, Start+Count)) in child order, then end-of-stream.
C3_LimitWindow ==
    (/\ plan.kind = "LimitPlan"
     /\ plan.ChildPlan.kind = "FullScanPlan"
     /\ faults = 0
     /\ NoFilterError(plan.ChildPlan.Filter)) =>
        LET rows == ScanRows(plan.ChildPlan.Filter)
            want == SubSeq(rows, plan.Start + 1, Min(Len(rows), plan.Start + plan.Count))
        IN /\ IsPrefix(out, want)
           /\ Ended1 => out = want

\* rows were skipped, rows were yielded, rows were left in the child, stream ended
C3_Witness ==
    /\ plan.kind = "LimitPlan"
    /\ plan.ChildPlan.kind = "FullScanPlan"
    /\ faults = 0
    /\ NoFilterError(plan.ChildPlan.Filter)
    /\ plan.Start > 0
    /\ Len(out) = plan.Count
    /\ plan.Count > 0
    /\ Len(ScanRows(plan.ChildPlan.Filter)) > plan.Start + plan.Count
    /\ Ended1

OrderKey(pair) == Execute(IntOfValue, KVP(pair[1], pair[2])).val.v

\* C4: over a child that yields n rows without errors, OrderPlan with one ascending
\* integer field yields n rows, in non-decreasing order of the field, and the
\* multiset of the rows is that of the child.
C4_OrderSorts ==
    (/\ plan.kind = "OrderPlan"
     /\ plan.Orders = <<OrderField(IntOfValue, "ASC")>>
     /\ faults = 0) =>
        /\ \A i \in 1..(Len(out) - 1) : OrderKey(out[i]) <= OrderKey(out[i + 1])
        /\ \A i \in 1..Len(out) : Count(out[i], out) <= Count(out[i], Pairs(store))
        /\ Ended1 =>
            /\ Len(out) = Len(store)
            /\ \A i \in 1..Len(store) : Count(Pair(store[i]), out) = 1

\* four rows that the child gave in another order than the sorted one, all yielded
C4_Witness ==
    /\ plan.kind = "OrderPlan"
    /\ plan.Orders = <<OrderField(IntOfValue, "ASC")>>
    /\ faults = 0
    /\ Ended1
    /\ Len(out) >= 4
    /\ out # Pairs(store)
    /\ \E i \in 1..(Len(out) - 1) : OrderKey(out[i]) = OrderKey(out[i + 1])

\* C5: OrderPlan.Next returns no row before the child's Next has returned the
\* end-of-stream sentinel. It does not hold: after a prepare that failed with rows
\* already pushed, total # 0 and the next call pops a row without draining the child.
C5_RowOnlyAfterDrain ==
    (\E i \in 1..Len(log) : log[i].src = "OrderPlan" /\ log[i].key # Nil) =>
        "FullScanPlan" \in done

InRange(p, k) ==
    /\ p.Start # Nil => BytesCompare(Get(p.Start), k) <= 0
    /\ p.End # Nil => BytesCompare(k, Get(p.End)) <= 0

\* C6: with a filter that accepts every row, RangeScanPlan{Start, End} yields exactly
\* the stored rows with Start <= key <= End, once each, in key order, then
\* end-of-stream.
C6_RangeExact ==
    (/\ plan.kind = "RangeScanPlan"
     /\ faults = 0
     /\ \A i \in 1..Len(store) : Passes(plan.Filter, store[i])) =>
        LET Test(row) == InRange(plan, row.key)
            want == Pairs(SelectSeq(store, Test))
        IN /\ IsPrefix(out, want)
           /\ Ended1 => out = want

\* a range with both bounds, a key below Start, a key above End, both ends yielded
C6_Witness ==
    /\ plan.kind = "RangeScanPlan"
    /\ faults = 0
    /\ \A i \in 1..Len(store) : Passes(plan.Filter, store[i])
    /\ plan.Start # Nil /\ plan.End # Nil
    /\ Ended1
    /\ Len(store) = 3
    /\ out = <<Pair(store[2])>>
    /\ store[2].key = Get(plan.Start)
    /\ store[2].key = Get(plan.End)

\* C7: PrefixScanPlan{Prefix} yields exactly the stored rows whose key starts with
\* Prefix and that pass the filter, once each, in key order, then end-of-stream.
C7_PrefixExact ==
    (/\ plan.kind = "PrefixScanPlan"
     /\ faults = 0
     /\ NoFilterError(plan.Filter)) =>
        LET Test(row) == HasPrefix(row.key, plan.Prefix) /\ Passes(plan.Filter, row)
            want == Pairs(SelectSeq(store, Test))
        IN /\ IsPrefix(out, want)
           /\ Ended1 => out = want

\* a row with the prefix that the filter refuses, a later row yielded, and a key
\* without the prefix that ended the stream
C7_Witness ==
    /\ plan.kind = "PrefixScanPlan"
    /\ faults = 0
    /\ NoFilterError(plan.Filter)
    /\ Ended1
    /\ Len(store) = 3
    /\ HasPrefix(store[1].key, plan.Prefix) /\ ~Passes(plan.Filter, store[1])
    /\ out = <<Pair(store[2])>>
    /\ ~HasPrefix(store[3].key, plan.Prefix)

Present(k) == \E i \in 1..Len(store) : store[i].key = k

StoredRow(k) == store[CHOOSE i \in 1..Len(store) : store[i].key = k]

\* C8: for a key list in any order, MultiGetPlan yields the rows of the listed keys
\* that are present and pass the filter, as often as they are listed, in ascending
\* key order; absent keys are skipped.
C8_MultiGetSorted ==
    (/\ plan.kind = "MultiGetPlan"
     /\ faults = 0
     /\ NoFilterError(plan.Filter)) =>
        /\ \A i \in 1..(Len(out) - 1) : BytesCompare(out[i][1], out[i + 1][1]) <= 0
        /\ \A i \in 1..Len(out) :
            /\ Present(out[i][1])
            /\ out[i] = Pair(StoredRow(out[i][1]))
            /\ Passes(plan.Filter, StoredRow(out[i][1]))
            /\ Count(out[i], out) <= Count(out[i][1], orig)
        /\ Ended1 =>
            \A i \in 1..Len(orig) :
                IF Present(orig[i]) /\ Passes(plan.Filter, StoredRow(orig[i]))
                THEN Count(Pair(StoredRow(orig[i])), out) = Count(orig[i], orig)
                ELSE \A j \in 1..Len(out) : out[j][1] # orig[i]

\* the rows of two keys given in descending order came out ascending
C8_Witness ==
    /\ plan.kind = "MultiGetPlan"
    /\ faults = 0
    /\ Ended1
    /\ Len(orig) = 2
    /\ BytesCompare(orig[1], orig[2]) > 0
    /\ Len(out) = 2
    /\ out[1][1] = orig[2]

\* the column-stream plan that corresponds to a LimitPlan in the same state
AsFinalLimit(p) ==
    [kind |-> "FinalLimitPlan", Start |-> p.Start, Count |-> p.Count,
     current |-> p.current, skips |-> p.skips, ChildPlan |-> ProjectionPlan(p.ChildPlan)]

SameResult(a, b) ==
    /\ a.err = b.err
    /\ (a.key = Nil /\ a.val = Nil) <=> b.cols = Nil
    /\ b.cols # Nil => Get(b.cols) = <<Get(a.key), Get(a.val)>>

\* C9: in every state a LimitPlan reaches, a call of Init and a call of Next on the
\* LimitPlan and on the FinalLimitPlan in the corresponding state, over children that
\* give corresponding results (rows, sentinels, errors), return corresponding results
\* and leave skips, current and the child equal; so every sequence of calls does.
C9_LimitsCorrespond ==
    plan.kind = "LimitPlan" =>
        \A f \in 0..MaxFaultAt :
            /\ LET a == LimitInit(plan, 1, Ctx(f))
                   b == FinalLimitInit(AsFinalLimit(plan), 1, Ctx(f))
               IN a.err = b.err /\ AsFinalLimit(a.plan) = b.plan
            /\ LET a == LimitNext(plan, 1, Ctx(f))
                   b == FinalLimitNext(AsFinalLimit(plan), 1, Ctx(f))
               IN SameResult(a, b) /\ AsFinalLimit(a.plan) = b.plan

\* a LimitPlan that has skipped and yielded rows and seen a child error
C9_Witness ==
    /\ plan.kind = "LimitPlan"
    /\ phase = "ready"
    /\ plan.Start > 0 /\ plan.skips = plan.Start
    /\ plan.current > 0 /\ plan.current < plan.Count
    /\ ret.err # NoErr

IsError(e) == e \notin {NoErr, ErrPanic}

\* C10: when a cursor Next, a Get, a filter evaluation or a child's Next returns an
\* error inside a Next call of a row plan, every plan on the way up returns that error
\* with a nil key and a nil value, and so does the root.
C10_ErrorsPropagate ==
    (calls > 0 /\ ~IsFinal(plan)) =>
        /\ ret.err # NoErr => ret.key = Nil /\ ret.val = Nil
        /\ \A i \in 1..Len(log) :
            IsError(log[i].err) =>
                /\ ret.err = log[i].err
                /\ \A j \in (i + 1)..Len(log) :
                    log[j].err = log[i].err /\ log[j].key = Nil

\* a filter error on a row that the cursor gave, under a LimitPlan, after a row
C10_Witness ==
    /\ calls > 0
    /\ plan.kind = "LimitPlan"
    /\ out # <<>>
    /\ \E i \in 1..Len(log) :
        /\ log[i].src = "Filter"
        /\ IsError(log[i].err)
        /\ log[i].key # Nil
    /\ Len(log) >= 4

\* C11: an error of Txn.Cursor, of Cursor.Seek or of the child's Init inside an Init
\* call is the error that Init returns to its caller. It does not hold: OrderPlan.Init
\* and FinalOrderPlan.Init call the child's Init and return nil whatever it returned.
C11_InitErrorsPropagate ==
    (phase # "new" /\ calls = 0) =>
        \A i \in 1..Len(log) :
            (log[i].err # NoErr /\ log[i].src \in {"Txn.Cursor", "Cursor.Seek", "Init"}) =>
                LET caller == IF log[i].src = "Init" THEN log[i].depth - 1 ELSE log[i].depth
                IN \A j \in (i + 1)..Len(log) :
                       (log[j].src = "Init" /\ log[j].depth = caller) =>
                           log[j].err = log[i].err

\* the value of a literal
LitValue(e) == IF e.kind = "StringExpr" THEN VBytes(e.Data) ELSE VInt(e.Int)

\* the order of two values of one type: byte-wise for strings, numeric for numbers
ValueLeq(a, b) ==
    IF a.t = "bytes" THEN BytesCompare(a.v, b.v) <= 0 ELSE a.v <= b.v

\* the call is left between [lower, upper] with both bounds literals of the left
\* operand's declared type
IsBetweenCall ==
    /\ call.fn = "Execute"
    /\ call.e.kind = "BinaryOpExpr"
    /\ call.e.Op = "Between"
    /\ call.e.Right.kind = "ListExpr"
    /\ Len(call.e.Right.List) = 2
    /\ \A i \in 1..2 : ReturnType(call.e.Right.List[i]) = ReturnType(call.e.Left)

\* C12: between with two bounds of the left operand's declared type returns, when
\* lower <= upper (lower = upper included), the boolean lower <= left <= upper and no
\* error, and an error when lower > upper. It does not hold: the bounds are tested
\* with the strict "<", so equal bounds are refused as "lower boundary is greater".
C12_BetweenInclusive ==
    (IsBetweenCall /\ returned # Nil) =>
        LET r == Get(returned)
            left == Execute(call.e.Left, call.kv).val
            lower == LitValue(call.e.Right.List[1])
            upper == LitValue(call.e.Right.List[2])
        IN IF ValueLeq(lower, upper)
           THEN /\ r.err = NoErr
                /\ r.val = VBool(ValueLeq(lower, left) /\ ValueLeq(left, upper))
           ELSE r.err # NoErr

\* the call is left in [e1, ..., en] with a left operand of type STRING or NUMBER
IsInCall ==
    /\ call.fn = "Execute"
    /\ call.e.kind = "BinaryOpExpr"
    /\ call.e.Op = "In"
    /\ call.e.Right.kind = "ListExpr"

\* the first position of l that has the property P, Len(l) + 1 when none has
First(l, P(_)) ==
    IF \E i \in 1..Len(l) : P(l[i])
    THEN CHOOSE i \in 1..Len(l) : P(l[i]) /\ \A j \in 1..(i - 1) : ~P(l[j])
    ELSE Len(l) + 1

\* C13: in examines the list from left to right: the result is true at the first
\* element equal to the left value, whatever comes after it (an element of another
\* type, an element whose evaluation fails); an error when an element of another
\* declared type than the left operand's comes before any equal element; false when
\* neither is found, so false for the empty list.
C13_InScansLeftToRight ==
    (IsInCall /\ returned # Nil) =>
        LET r == Get(returned)
            list == call.e.Right.List
            tp == ReturnType(call.e.Left)
            left == Execute(call.e.Left, call.kv).val
            Differs(x) == ReturnType(x) # tp
            FailsToEvaluate(x) == ~Differs(x) /\ Execute(x, call.kv).err # NoErr
            Equal(x) == ~Differs(x) /\ ~FailsToEvaluate(x) /\ Execute(x, call.kv).val = left
            k == First(list, Equal)
            m == First(list, Differs)
            b == First(list, FailsToEvaluate)
        IN /\ (k < m /\ k < b) => (r.err = NoErr /\ r.val = VBool(TRUE))
           /\ (m < k /\ m < b) => r.err # NoErr
           /\ (k > Len(list) /\ m > Len(list) /\ b > Len(list)) =>
                  (r.err = NoErr /\ r.val = VBool(FALSE))
           /\ list = <<>> => (r.err = NoErr /\ r.val = VBool(FALSE))

\* "a" in ["a", 1, <a field that fails>]: true although an element of another type
\* and an element whose evaluation fails come after the equal one
C13_Witness ==
    /\ IsInCall
    /\ returned # Nil
    /\ call.e.Left = StringExpr(<<97>>)
    /\ call.e.Right.List = <<StringExpr(<<97>>), NumberExpr(1), NoSuchField>>
    /\ Get(returned).val = VBool(TRUE)

IsLogicalCall ==
    /\ call.fn = "Execute"
    /\ call.e.kind = "BinaryOpExpr"
    /\ call.e.Op \in {"And", "Or"}

\* C14: AND with a false left operand is false, OR with a true left operand is true,
\* and in both cases the right operand is not evaluated (a right operand whose
\* evaluation fails does no harm); with the other boolean value on the left the
\* right operand is evaluated exactly once and the result is the conjunction /
\* disjunction; a left value that is no boolean, and an evaluated right value that is
\* no boolean, are errors.
C14_LogicalShortCircuit ==
    (IsLogicalCall /\ returned # Nil) =>
        LET r == Get(returned)
            l == Execute(call.e.Left, call.kv)
            rr == Execute(call.e.Right, call.kv)
            decided == call.e.Op = "Or"
            rights == Cardinality({i \in 1..Len(r.evals) : r.evals[i] = "Right"})
        IN /\ (l.err = NoErr /\ l.val.t # "bool") => r.err # NoErr
           /\ (l.err = NoErr /\ l.val.t = "bool" /\ l.val.v = decided) =>
                  (r.err = NoErr /\ r.val = VBool(decided) /\ rights = 0)
           /\ (l.err = NoErr /\ l.val.t = "bool" /\ l.val.v # decided) =>
                  /\ rights = 1
                  /\ (rr.err = NoErr /\ rr.val.t = "bool") =>
                         (r.err = NoErr /\ r.val = VBool(rr.val.v))
                  /\ (rr.err = NoErr /\ rr.val.t # "bool") => r.err # NoErr

\* false & <a field that fails>: false, no error
C14_Witness ==
    /\ IsLogicalCall
    /\ returned # Nil
    /\ call.e.Op = "And"
    /\ call.e.Left = BoolExpr(FALSE)
    /\ call.e.Right = NoSuchField
    /\ Get(returned).err = NoErr
    /\ Get(returned).val = VBool(FALSE)

\* the call is base.name or base[index] with a base that evaluates to a value
IsFieldAccessCall ==
    /\ call.fn = "Execute"
    /\ call.e.kind = "FieldAccessExpr"
    /\ call.e.FieldName.kind \in {"StringExpr", "NumberExpr"}
    /\ Execute(call.e.Left, call.kv).err = NoErr

IsAbsent(r) == r.err = NoErr /\ r.val.t = "string" /\ r.val.v = <<>>

\* C15: field and index access do not fail on absence: a key that a mapping does not
\* have, an index outside 0..len-1 of a list, and an empty-string base give the empty
\* string and no error; a non-empty string base and a base of any other type that is
\* no mapping and no list give an error. It does not hold: a negative index passes
\* the only test, idx < len, and indexing the list with it is a run-time panic.
C15_AbsenceIsNoError ==
    (IsFieldAccessCall /\ returned # Nil) =>
        LET r == Get(returned)
            base == Execute(call.e.Left, call.kv).val
            f == call.e.FieldName
        IN /\ (base.t = "map" /\ f.kind = "StringExpr" /\ ~MapHas(base.v, f.Data)) =>
                  IsAbsent(r)
           /\ (base.t = "list" /\ f.kind = "NumberExpr" /\ f.Int \notin 0..(Len(base.v) - 1)) =>
                  IsAbsent(r)
           /\ (base.t = "string" /\ base.v = <<>>) => IsAbsent(r)
           /\ (base.t = "string" /\ base.v # <<>>) => r.err # NoErr
           /\ base.t \notin {"map", "list", "string"} => r.err # NoErr

\* -1, 0 or 1 as l is before, equal to or after r in an ascending order, and the
\* inverse in a descending one
Direction(less, equal, reverse) ==
    IF equal THEN 0
    ELSE IF reverse THEN (IF less THEN 1 ELSE -1)
    ELSE IF less THEN -1 ELSE 1

\* C16: the NUMBER comparator of FinalOrderPlan compares two serialized values as
\* integers when both parse as integers, else as floats when both parse as floats,
\* else calls them equal; a descending field inverts the sign of a result that is
\* not equal. It does not hold: "NaN" parses as a float that is neither equal to nor
\* less than nor greater than any float, and the comparator answers 1 for it in both
\* directions.
C16_NumberComparator ==
    (call # Nil /\ call.fn = "compareNumber" /\ returned # Nil) =>
        LET li == ParseInt(call.lval)
            ri == ParseInt(call.rval)
            lf == ParseFloat(call.lval)
            rf == ParseFloat(call.rval)
        IN Get(returned) =
               IF li.ok /\ ri.ok THEN Direction(li.i < ri.i, li.i = ri.i, call.reverse)
               ELSE IF lf.ok /\ rf.ok
               THEN Direction(FloatLess(lf, rf), FloatEq(lf, rf), call.reverse)
               ELSE 0

ChildNextCalled == \E i \in 1..Len(log) : log[i].depth = 2 /\ log[i].src \in PlanKinds

\* C18: OrderPlan and FinalOrderPlan call the child's Next only inside their first
\* Next: when every Next so far returned without error (no storage call failed,
\* nothing panicked), the second and later Next calls do not call the child's Next,
\* whatever the child yields, zero rows included. It does not hold: total = 0 is the
\* mark of "not drained yet", and it is still 0 after a child with no rows was drained.
C18_ChildDrainedOnce ==
    (plan.kind \in {"OrderPlan", "FinalOrderPlan"} /\ calls >= 2 /\ faults = 0
        /\ phase = "ready") =>
        ~ChildNextCalled

\* the value of an order field on a yielded row
FieldValue(o, pair) == Execute(o.Field, KVP(pair[1], pair[2])).val

\* a is before b among integers, byte strings (byte-wise) or booleans (false first)
ValueBefore(a, b) ==
    CASE a.t = "int" -> a.v < b.v
      [] a.t = "bytes" -> BytesCompare(a.v, b.v) < 0
      [] a.t = "bool" -> ~a.v /\ b.v

\* C19: with several order fields of integer, string or boolean values, each ASC or
\* DESC, two consecutive rows that OrderPlan yields are ordered by the first field on
\* which their values differ: the earlier row has the smaller value if that field is
\* ASC, the larger one if it is DESC.
C19_LexicographicOrder ==
    (plan.kind = "OrderPlan" /\ plan.Orders \in MultiOrders /\ faults = 0) =>
        \A i \in 1..(Len(out) - 1) :
            LET differ == {j \in 1..Len(plan.Orders) :
                              FieldValue(plan.Orders[j], out[i])
                                  # FieldValue(plan.Orders[j], out[i + 1])}
                j == CHOOSE k \in differ : \A m \in differ : k <= m
                a == FieldValue(plan.Orders[j], out[i])
                b == FieldValue(plan.Orders[j], out[i + 1])
            IN differ # {} =>
                   IF plan.Orders[j].Order = "ASC" THEN ValueBefore(a, b)
                   ELSE ValueBefore(b, a)

\* three rows ordered by value = '1' descending, then int(value) ascending, then key
\* descending: the first field decides between the first two rows, and the last
\* field between the last two, which tie on the first and on the second field
C19_Witness ==
    /\ plan.kind = "OrderPlan"
    /\ plan.Orders = <<OrderField(IsOne, "DESC"), OrderField(IntOfValue, "ASC"),
                       OrderField(FieldExpr("KeyKW"), "DESC")>>
    /\ faults = 0
    /\ out = <<<<<<97>>, V1>>, <<<<99>>, V2>>, <<<<98>>, V2>>>>

\* the first order field fails to evaluate on every stored row
OrderFieldFails ==
    \A i \in 1..Len(store) :
        Execute(plan.Orders[1].Field, KVP(store[i].key, store[i].value)).err # NoErr

\* C20: when the evaluation of an order field fails on a buffered row, the
\* OrderPlan.Next call in which it is evaluated returns an error and no row. The
\* first Next over two or more rows compares rows while it fills the heap. It does
\* not hold: orderRow.Less drops the error of Execute and Next yields a row.
C20_OrderFieldErrorReturned ==
    (/\ plan.kind = "OrderPlan"
     /\ calls = 1
     /\ faults = 0
     /\ Len(store) >= 2
     /\ OrderFieldFails) =>
        (ret.err # NoErr /\ ~IsRow(ret))

\* the place of a yielded row in the order in which the child produced the rows: the
\* child of the ordering plans scans the whole store in key order
ChildPosition(pair) == CHOOSE k \in 1..Len(store) : store[k].key = pair[1]

\* neither row is before the other under the comparator of the root plan
EqualKeys(a, b) ==
    IF plan.kind = "OrderPlan"
    THEN LET l == [key |-> a[1], value |-> a[2]]
             r == [key |-> b[1], value |-> b[2]]
         IN /\ ~orderRowLess(l, r, plan.Orders).less
            /\ ~orderRowLess(r, l, plan.Orders).less
    ELSE LET lt == ColLess(plan.Orders, plan.orderPos, plan.orderTypes)
         IN /\ ~orderColumnsRowLess(a, b, lt).less
            /\ ~orderColumnsRowLess(b, a, lt).less

\* C21: the push-all / pop-all heap extraction of OrderPlan and FinalOrderPlan is
\* stable: two yielded rows whose keys compare equal under the comparator of the plan
\* are yielded in the order in which the child produced them. It does not hold: Pop
\* moves the last row of the heap to the root, and of three rows with equal keys the
\* third is yielded before the second.
C21_HeapExtractionStable ==
    plan.kind \in {"OrderPlan", "FinalOrderPlan"} =>
        \A i \in 1..Len(out) : \A j \in (i + 1)..Len(out) :
            EqualKeys(out[i], out[j]) => ChildPosition(out[i]) < ChildPosition(out[j])

\* C22: under FinalOrderPlan with a single ascending NUMBER field, two yielded rows
\* whose column values both parse as integers are in non-decreasing numeric order,
\* also when other rows hold a text that is no number. It does not hold: compareNumber
\* answers "equal" for a text against every number, the heap keeps a smaller integer
\* below such a row, and a larger integer is popped first.
C22_IntegersInOrder ==
    (/\ plan.kind = "FinalOrderPlan"
     /\ plan.Orders = <<FinalOrderField("value", IntOfValue, "ASC")>>
     /\ faults = 0) =>
        \A i \in 1..Len(out) : \A j \in (i + 1)..Len(out) :
            (ParseInt(out[i][2]).ok /\ ParseInt(out[j][2]).ok) =>
                ParseInt(out[i][2]).i <= ParseInt(out[j][2]).i

IsLimit == plan.kind \in {"LimitPlan", "FinalLimitPlan"}

\* the number of rows that the child of the root plan returned inside a call with
\* this trace
ChildRows(l) ==
    Cardinality({i \in 1..Len(l) :
        l[i].depth = 2 /\ l[i].src \in PlanKinds /\ l[i].key # Nil})

CountersInRange(p) == p.skips \in 0..p.Start /\ p.current \in 0..p.Count

\* One Next call on a limit plan at the root: the counters stay in their ranges, every
\* row obtained from the child is counted once, in skips or in current (so that the
\* child gave skips + current <= Start + Count rows since Init), and a call made when
\* the plan is quiet does not call the child's Next.
LimitCallBounded(quiet) ==
    (IsLimit /\ phase = "ready") =>
        /\ CountersInRange(plan)
        /\ CountersInRange(plan')
        /\ ChildRows(log') = (plan'.skips - plan.skips) + (plan'.current - plan.current)
        /\ quiet => ~ChildNextCalled'

\* C23 as stated: LimitPlan and FinalLimitPlan obtain at most Start + Count rows from
\* the child, 0 <= skips <= Start and 0 <= current <= Count, and once Count rows have
\* been returned no Next call calls the child's Next. The last part fails for
\* Count = 0 and Start > 0: no row is to be returned, and the first Next still pulls
\* the rows to skip.
C23_LimitBounded == [][LimitCallBounded(Len(out) >= plan.Count)]_vars

\* C23, amended: LimitPlan and FinalLimitPlan obtain at most Start + Count rows from
\* the child, 0 <= skips <= Start and 0 <= current <= Count, and once Start rows have
\* been skipped and Count rows have been returned no Next call calls the child's Next.
C23_LimitBoundedAfterSkip ==
    [][LimitCallBounded(plan.skips = plan.Start /\ Len(out) >= plan.Count)]_vars

\* one row skipped, one row returned, a third row left in the child, and a later Next
\* that returned the end of the stream without a call of the child
C23_Witness ==
    /\ IsLimit
    /\ plan.Start = 1
    /\ plan.Count = 1
    /\ plan.skips = 1
    /\ plan.current = 1
    /\ Len(out) = 1
    /\ Len(store) = 3
    /\ \A i \in 1..Len(store) : store[i].value = V1
    /\ calls >= 2
    /\ IsSentinel(ret)
    /\ ~ChildNextCalled

\* the ordering plan of the tree: the root, or the child of a limit plan at the root
HasOrderNode ==
    \/ plan.kind \in {"OrderPlan", "FinalOrderPlan"}
    \/ plan.kind = "LimitPlan" /\ plan.ChildPlan.kind = "OrderPlan"

OrderNode == IF plan.kind = "LimitPlan" THEN plan.ChildPlan ELSE plan

\* the last call panicked in the storage or in a plan under the ordering plan
PanicBelow ==
    \E i \in 1..Len(log) :
        log[i].err = ErrPanic /\ log[i].src \notin {"OrderPlan", "FinalOrderPlan", "LimitPlan"}

\* C24: in every state of OrderPlan and FinalOrderPlan after Init, also after the
\* child returned an error part-way through draining, 0 <= pos <= total and the heap
\* holds total - pos rows; no Next pops from an empty heap (the ordering plan itself
\* never panics), and an ordering plan at the root has yielded pos rows, no more than
\* were buffered.
C24_HeapAccounting ==
    (HasOrderNode /\ phase # "new") =>
        /\ 0 <= OrderNode.pos
        /\ OrderNode.pos <= OrderNode.total
        /\ Len(OrderNode.sorted) = OrderNode.total - OrderNode.pos
        /\ ret.err = ErrPanic => PanicBelow
        /\ plan.kind # "LimitPlan" => Len(out) = plan.pos

\* the child failed after it gave one of four rows; the buffered row was yielded, and
\* a further Next returned the end of the stream
C24_Witness ==
    /\ plan.kind \in {"OrderPlan", "FinalOrderPlan"}
    /\ Len(store) = 4
    /\ faults = 1
    /\ plan.total = 1
    /\ plan.pos = 1
    /\ plan.sorted = <<>>
    /\ Len(out) = 1
    /\ calls = 3
    /\ IsSentinel(ret)

\* the keys that Txn.Get was called with inside a call with this trace, in call order
GetKeys(l) ==
    LET gets == SelectSeq(l, LAMBDA e : e.src = "Txn.Get")
    IN [i \in 1..Len(gets) |-> Get(gets[i].key)]

\* C25: over the Next calls on a MultiGetPlan the lookup index only increases and
\* never passes the end of the key list; the key list is ascending and is not changed;
\* the Txn.Get calls of one Next are those of the positions that the index moved over,
\* one call each, in list order (so that every position is looked up at most once and
\* there are at most len(Keys) calls in all); and a Next that returned an error has
\* moved the index past the position that failed, which no later call looks up again.
C25_LookupsAdvance ==
    [][(plan.kind = "MultiGetPlan" /\ phase = "ready") =>
          /\ plan.idx <= plan'.idx
          /\ plan'.idx <= Len(plan.Keys)
          /\ plan'.Keys = plan.Keys
          /\ \A i \in 1..(Len(plan.Keys) - 1) :
                BytesCompare(plan.Keys[i], plan.Keys[i + 1]) <= 0
          /\ GetKeys(log') = SubSeq(plan.Keys, plan.idx + 1, plan'.idx)
          /\ ret'.err # NoErr => plan'.idx > plan.idx]_vars

\* two different keys; the lookup of the first one failed, and the second Next looked
\* up the second key only and yielded its row
C25_Witness ==
    /\ plan.kind = "MultiGetPlan"
    /\ Len(plan.Keys) = 2
    /\ plan.Keys[1] # plan.Keys[2]
    /\ faults = 1
    /\ calls = 2
    /\ plan.idx = 2
    /\ GetKeys(log) = <<plan.Keys[2]>>
    /\ IsRow(ret)
    /\ Len(out) = 1
    /\ out[1][1] = plan.Keys[2]

====
